---- MODULE Spec2Model ----
(***************************************************************************)
(* Aetherwave: the content classification and theme synthesis engine and   *)
(* the bento layout optimizer, as state machines.                          *)
(*                                                                         *)
(* Numbers.  The Python code computes with floats; here every decimal is   *)
(* an exact integer in a fixed unit: hundredths for ratios of slots, crop  *)
(* tolerances, importances and the features read from metadata files,      *)
(* thousandths for the profiles of the image classifier.  The theme scores *)
(* are IEEE doubles.  An image's aspect ratio width/height is kept as the  *)
(* exact fraction aspect_num/aspect_den, and fractions are compared by     *)
(* cross-multiplication.                                                   *)
(***************************************************************************)
EXTENDS Integers, Sequences, FiniteSets, TLC

VARIABLES
    patterns,       \* BentoOptimizer.patterns, the catalogue
    pc,             \* position of the running optimize_layout call: "idle" | "slots"
    call,           \* the call in progress or last returned: [op, ...arguments]
    ret,            \* the value the last completed call returned
    analyses,       \* optimize_layout: the analysed images
    sorted_slots,   \* optimize_layout: slots in processing order
    slot_idx,       \* optimize_layout: index of the next slot of the loop
    assignments,    \* optimize_layout: slot key -> assignment
    used_images,    \* optimize_layout: filenames already assigned
    invoked         \* analyze_collection_theme: the methods the call invoked, in order

bento_vars == <<patterns, pc, call, ret, analyses, sorted_slots, slot_idx,
                assignments, used_images>>

theme_vars == <<invoked>>

VARIABLES
    cache_file,     \* ContentThemeCache: what the cache file holds on disk
    caches,         \* self.cache of each ContentThemeCache instance
    latest          \* history: per instance, the theme last set or loaded per key

cache_vars == <<cache_file, caches, latest>>

\* the optimizer's variables other than call and ret
bento_vars_but_call ==
    <<patterns, pc, analyses, sorted_slots, slot_idx, assignments, used_images>>

VARIABLES
    earlier         \* history: an earlier optimize_layout call with its result, and
                    \* whether calls with other arguments have returned since

history_vars == <<earlier>>

VARIABLES
    temp_files,             \* the files tempfile.mkstemp created that still exist
    processed_image_path,   \* analyze_colors: the path handed to ColorThief
    resized_img             \* analyze_colors: width and height of the resized image

color_vars == <<temp_files, processed_image_path, resized_img>>

vars == <<bento_vars, theme_vars, cache_vars, history_vars, color_vars>>

-----------------------------------------------------------------------------
(* Bounds of the model *)

MaxLayoutImages == 2
MaxCollectionImages == 3
MaxWidth == 50
MaxHeight == 20

-----------------------------------------------------------------------------
(* Arithmetic helpers *)

Abs(x) == IF x < 0 THEN -x ELSE x
Max(a, b) == IF a >= b THEN a ELSE b
Min(a, b) == IF a <= b THEN a ELSE b

RECURSIVE Gcd(_, _)
Gcd(a, b) == IF b = 0 THEN a ELSE Gcd(b, a % b)

\* the fraction n/d (d > 0) in lowest terms
Frac(n, d) == LET g == Gcd(Abs(n), d) IN [num |-> n \div g, den |-> d \div g]

FracAdd(p, q) == Frac(p.num * q.den + q.num * p.den, p.den * q.den)

\* round(n/d, k digits) with unit = 10^k: the nearest multiple of 1/unit, an
\* exact tie going to the even one
RoundTo(n, d, unit) ==
    LET twice == 2 * n * unit
        lo    == twice \div (2 * d)
        rem   == twice - lo * 2 * d
    IN  IF rem > d THEN lo + 1
        ELSE IF rem < d THEN lo
        ELSE IF lo % 2 = 0 THEN lo ELSE lo + 1

-----------------------------------------------------------------------------
(* bento_optimizer.py: data *)

SQUARE == "square"
PORTRAIT == "portrait"
LANDSCAPE == "landscape"
PANORAMIC == "panoramic"
VERTICAL == "vertical"

AspectCategory == {SQUARE, PORTRAIT, LANDSCAPE, PANORAMIC, VERTICAL}

\* aspect_ratio and importance in hundredths
TileSlot(row, col, width, height, aspect_ratio, preferred_categories, importance) ==
    [row |-> row, col |-> col, width |-> width, height |-> height,
     aspect_ratio |-> aspect_ratio, preferred_categories |-> preferred_categories,
     importance |-> importance]

BentoPattern(name, slots, ideal_for) ==
    [name |-> name, slots |-> slots, ideal_for |-> ideal_for]

_create_bento_patterns ==
    << BentoPattern("portrait_showcase",
         << TileSlot(0, 0, 2, 3, 67, {PORTRAIT}, 100),
            TileSlot(0, 2, 1, 1, 100, {SQUARE}, 60),
            TileSlot(1, 2, 1, 1, 100, {SQUARE}, 60),
            TileSlot(2, 2, 1, 1, 100, {SQUARE}, 60),
            TileSlot(0, 3, 2, 1, 200, {LANDSCAPE}, 80),
            TileSlot(1, 3, 2, 2, 100, {PORTRAIT}, 90) >>,
         {PORTRAIT, VERTICAL}),
       BentoPattern("landscape_gallery",
         << TileSlot(0, 0, 1, 3, 300, {PANORAMIC}, 100),
            TileSlot(1, 0, 2, 2, 100, {LANDSCAPE}, 90),
            TileSlot(1, 2, 1, 1, 100, {SQUARE}, 70),
            TileSlot(2, 2, 1, 1, 100, {SQUARE}, 70),
            TileSlot(3, 0, 1, 2, 200, {LANDSCAPE}, 80),
            TileSlot(3, 2, 1, 1, 100, {PORTRAIT}, 60) >>,
         {LANDSCAPE, PANORAMIC}),
       BentoPattern("balanced_mix",
         << TileSlot(0, 0, 2, 2, 100, {SQUARE, LANDSCAPE}, 100),
            TileSlot(0, 2, 1, 2, 50, {PORTRAIT}, 80),
            TileSlot(2, 0, 1, 1, 100, {SQUARE}, 60),
            TileSlot(2, 1, 1, 1, 100, {SQUARE}, 60),
            TileSlot(2, 2, 1, 1, 100, {SQUARE}, 60),
            TileSlot(1, 2, 1, 1, 100, {SQUARE}, 70) >>,
         {SQUARE}),
       BentoPattern("grid_harmony",
         << TileSlot(0, 0, 2, 2, 100, {SQUARE}, 100),
            TileSlot(0, 2, 1, 1, 100, {SQUARE}, 80),
            TileSlot(1, 2, 1, 1, 100, {SQUARE}, 80),
            TileSlot(2, 0, 1, 1, 100, {SQUARE}, 70),
            TileSlot(2, 1, 1, 1, 100, {SQUARE}, 70),
            TileSlot(2, 2, 1, 1, 100, {SQUARE}, 70) >>,
         {SQUARE}) >>

ImageAnalysis(filename, width, height, aspect_num, aspect_den, category, crop_tolerance) ==
    [filename |-> filename, width |-> width, height |-> height,
     aspect_num |-> aspect_num, aspect_den |-> aspect_den,
     category |-> category, crop_tolerance |-> crop_tolerance]

-----------------------------------------------------------------------------
(* bento_optimizer.py: analyze_image *)

\* analyze_image with the square band open at its upper end (ratio < 1.1)
analyze_image_open_square(metadata) ==
    LET width  == metadata.width
        height == metadata.height
    IN  IF height = 0
        THEN ImageAnalysis(metadata.filename, 1, 1, 1, 1, SQUARE, 80)
        ELSE IF 9 * height <= 10 * width /\ 10 * width < 11 * height
             THEN ImageAnalysis(metadata.filename, width, height, width, height, SQUARE, 80)
        ELSE IF 10 * width < 6 * height
             THEN ImageAnalysis(metadata.filename, width, height, width, height, VERTICAL, 30)
        ELSE IF 10 * width < 9 * height
             THEN ImageAnalysis(metadata.filename, width, height, width, height, PORTRAIT, 50)
        ELSE IF 10 * width > 18 * height
             THEN ImageAnalysis(metadata.filename, width, height, width, height, PANORAMIC, 40)
        ELSE ImageAnalysis(metadata.filename, width, height, width, height, LANDSCAPE, 60)

\* height = 0 makes width / height raise ZeroDivisionError, which the except
\* branch turns into the default square analysis.  crop_tolerance in hundredths.
analyze_image(metadata) ==
    LET width  == metadata.width
        height == metadata.height
    IN  IF height = 0
        THEN ImageAnalysis(metadata.filename, 1, 1, 1, 1, SQUARE, 80)
        ELSE IF 9 * height <= 10 * width /\ 10 * width <= 11 * height
             THEN ImageAnalysis(metadata.filename, width, height, width, height, SQUARE, 80)
        ELSE IF 10 * width < 6 * height
             THEN ImageAnalysis(metadata.filename, width, height, width, height, VERTICAL, 30)
        ELSE IF 10 * width < 9 * height
             THEN ImageAnalysis(metadata.filename, width, height, width, height, PORTRAIT, 50)
        ELSE IF 10 * width > 18 * height
             THEN ImageAnalysis(metadata.filename, width, height, width, height, PANORAMIC, 40)
        ELSE ImageAnalysis(metadata.filename, width, height, width, height, LANDSCAPE, 60)

AnalyzeAll(image_metadatas) ==
    [i \in 1..Len(image_metadatas) |-> analyze_image(image_metadatas[i])]

-----------------------------------------------------------------------------
(* bento_optimizer.py: analyze_collection and _recommend_patterns *)

\* category_percentages.get(cat, 0), an exact fraction
PercentageOf(category_percentages, cat) ==
    IF cat \in DOMAIN category_percentages THEN category_percentages[cat] ELSE Frac(0, 1)

\* p > n/d for a fraction p
FracGreater(p, n, d) == p.num * d > n * p.den

AppendIf(cond, seq, x) == IF cond THEN Append(seq, x) ELSE seq

FirstN(seq, n) == SubSeq(seq, 1, Min(n, Len(seq)))

\* _recommend_patterns with the portrait threshold met at exactly 50%
_recommend_patterns_inclusive(category_percentages) ==
    LET r1 == AppendIf(~FracGreater(Frac(1, 2), PercentageOf(category_percentages, PORTRAIT).num,
                                    PercentageOf(category_percentages, PORTRAIT).den),
                       <<>>, "portrait_showcase")
        r2 == AppendIf(FracGreater(FracAdd(PercentageOf(category_percentages, LANDSCAPE),
                                           PercentageOf(category_percentages, PANORAMIC)), 1, 2),
                       r1, "landscape_gallery")
        r3 == AppendIf(FracGreater(PercentageOf(category_percentages, SQUARE), 6, 10),
                       r2, "grid_harmony")
        values == {category_percentages[c] : c \in DOMAIN category_percentages}
        r4 == AppendIf(r3 = <<>> \/ Cardinality(values) > 1, r3, "balanced_mix")
    IN  FirstN(r4, 3)

_recommend_patterns(category_percentages) ==
    LET r1 == AppendIf(FracGreater(PercentageOf(category_percentages, PORTRAIT), 1, 2),
                       <<>>, "portrait_showcase")
        r2 == AppendIf(FracGreater(FracAdd(PercentageOf(category_percentages, LANDSCAPE),
                                           PercentageOf(category_percentages, PANORAMIC)), 1, 2),
                       r1, "landscape_gallery")
        r3 == AppendIf(FracGreater(PercentageOf(category_percentages, SQUARE), 6, 10),
                       r2, "grid_harmony")
        values == {category_percentages[c] : c \in DOMAIN category_percentages}
        r4 == AppendIf(r3 = <<>> \/ Cardinality(values) > 1, r3, "balanced_mix")
    IN  FirstN(r4, 3)

RECURSIVE SumCropTolerance(_, _)
SumCropTolerance(as, i) ==
    IF i > Len(as) THEN 0 ELSE as[i].crop_tolerance + SumCropTolerance(as, i + 1)

CountCategory(as, cat) == Cardinality({i \in 1..Len(as) : as[i].category = cat})

\* aspect_ratio and crop_tolerance as round(x, 2) gives them, in hundredths
AnalysisDetail(a) ==
    [filename |-> a.filename,
     aspect_ratio |-> RoundTo(a.aspect_num, a.aspect_den, 100),
     category |-> a.category,
     crop_tolerance |-> RoundTo(a.crop_tolerance, 100, 100)]

analyze_collection(image_metadatas) ==
    IF image_metadatas = <<>>
    THEN [error |-> "No images to analyze"]
    ELSE
      LET as == AnalyzeAll(image_metadatas)
          total_images == Len(as)
          present == {as[i].category : i \in 1..Len(as)}
          category_percentages ==
              [c \in present |-> Frac(CountCategory(as, c), total_images)]
          shown == FirstN(as, 10)
      IN  [collection_size |-> total_images,
           aspect_distribution |-> category_percentages,
           average_crop_tolerance |-> Frac(SumCropTolerance(as, 1), total_images),
           recommended_patterns |-> _recommend_patterns(category_percentages),
           analysis_details |-> [i \in 1..Len(shown) |-> AnalysisDetail(shown[i])]]

-----------------------------------------------------------------------------
(* bento_optimizer.py: optimize_layout and its helpers *)

None == [none |-> TRUE]

\* FindPattern falling back to the first pattern of the catalogue
FindPatternWithDefault(ps, pattern_name) ==
    LET hits == {i \in 1..Len(ps) : ps[i].name = pattern_name}
    IN  IF hits = {} THEN ps[1]
        ELSE ps[CHOOSE i \in hits : \A j \in hits : i <= j]

\* next((p for p in self.patterns if p.name == pattern_name), None)
FindPattern(ps, pattern_name) ==
    LET hits == {i \in 1..Len(ps) : ps[i].name = pattern_name}
    IN  IF hits = {} THEN None
        ELSE ps[CHOOSE i \in hits : \A j \in hits : i <= j]

\* sorted(seq, key, reverse=True) is stable: of two elements with equal keys the
\* one earlier in seq stays earlier.  Insert x after every element whose key is
\* (the importance) is >= its own.
\* InsertDescending placing x before the elements of equal importance
RECURSIVE InsertDescendingBeforeEquals(_, _)
InsertDescendingBeforeEquals(done, x) ==
    IF done = <<>> THEN <<x>>
    ELSE IF Head(done).importance > x.importance
         THEN <<Head(done)>> \o InsertDescendingBeforeEquals(Tail(done), x)
         ELSE <<x>> \o done

RECURSIVE InsertDescending(_, _)
InsertDescending(done, x) ==
    IF done = <<>> THEN <<x>>
    ELSE IF Head(done).importance >= x.importance
         THEN <<Head(done)>> \o InsertDescending(Tail(done), x)
         ELSE <<x>> \o done

RECURSIVE SortPrefix(_, _)
SortPrefix(slots, n) ==
    IF n = 0 THEN <<>>
    ELSE InsertDescending(SortPrefix(slots, n - 1), slots[n])

\* sorted(pattern.slots, key=lambda s: s.importance, reverse=True)
SortSlots(slots) == SortPrefix(slots, Len(slots))

\* Available without the filter on used_images
AvailableIgnoringUsed(as, used) == as

\* [a for a in analyses if a.filename not in used_images]
RECURSIVE Available(_, _)
Available(as, used) ==
    IF as = <<>> THEN <<>>
    ELSE IF Head(as).filename \notin used
         THEN <<Head(as)>> \o Available(Tail(as), used)
         ELSE Available(Tail(as), used)

\* |image.aspect_ratio - slot.aspect_ratio| = AspectDiffNum / (100 * aspect_den)
AspectDiffNum(image, slot) ==
    Abs(100 * image.aspect_num - slot.aspect_ratio * image.aspect_den)

\* AspectScoreNum without the max(0, .)
AspectScoreNumUnclamped(image, slot) ==
    100 * image.aspect_den - AspectDiffNum(image, slot)

\* aspect_score = max(0, 1 - aspect_diff), times 100 * aspect_den
AspectScoreNum(image, slot) ==
    Max(0, 100 * image.aspect_den - AspectDiffNum(image, slot))

\* score of the image for the slot, in thousandths, times aspect_den:
\* aspect_score * 0.5 + (0.3 if preferred) + crop_tolerance * 0.2
ScoreNum(image, slot) ==
    5 * AspectScoreNum(image, slot)
    + (IF image.category \in slot.preferred_categories THEN 300 ELSE 0) * image.aspect_den
    + 2 * image.crop_tolerance * image.aspect_den

\* score(a) > score(b)
ScoreHigher(a, b, slot) ==
    ScoreNum(a, slot) * b.aspect_den > ScoreNum(b, slot) * a.aspect_den

\* _find_best_image_for_slot offering a slot only images of a category it prefers
_find_best_image_for_slot_preferred_only(slot, as, used) ==
    LET available_images == Available(as, used)
        liked == {i \in 1..Len(available_images) :
                    available_images[i].category \in slot.preferred_categories}
    IN  IF liked = {} THEN None
        ELSE available_images[CHOOSE i \in liked : \A j \in liked : i <= j]

\* scored_images.sort(key=score, reverse=True)[0]: the sort is stable, so the
\* first of the available images that no other one beats
_find_best_image_for_slot(slot, as, used) ==
    LET available_images == Available(as, used)
        best == {i \in 1..Len(available_images) :
                    \A j \in 1..Len(available_images) :
                        ~ScoreHigher(available_images[j], available_images[i], slot)}
    IN  IF available_images = <<>> THEN None
        ELSE available_images[CHOOSE i \in best : \A j \in best : i <= j]

SlotKey(slot) == <<slot.row, slot.col>>

Assignment(best_image, slot) ==
    [filename |-> best_image.filename,
     aspect_match |-> Frac(AspectDiffNum(best_image, slot), 100 * best_image.aspect_den),
     crop_impact |-> Max(0, 100 - best_image.crop_tolerance)]

\* max(0, 1 - x) for a fraction x
OneMinusClamped(x) == IF x.num >= x.den THEN Frac(0, 1) ELSE Frac(x.den - x.num, x.den)

RECURSIVE SumAssignmentScores(_, _)
SumAssignmentScores(asg, keys) ==
    IF keys = {} THEN Frac(0, 1)
    ELSE LET k == CHOOSE x \in keys : TRUE
             aspect_score == OneMinusClamped(asg[k].aspect_match)
             crop_score   == OneMinusClamped(Frac(asg[k].crop_impact, 100))
             both         == FracAdd(aspect_score, crop_score)
         IN  FracAdd(Frac(both.num, 2 * both.den), SumAssignmentScores(asg, keys \ {k}))

\* _calculate_optimization_score returning total_score undivided
_calculate_optimization_score_total(asg) ==
    IF DOMAIN asg = {} THEN Frac(0, 1)
    ELSE SumAssignmentScores(asg, DOMAIN asg)

\* "if not assignments: return 0.0", else total_score / len(assignments)
_calculate_optimization_score(asg) ==
    IF DOMAIN asg = {} THEN Frac(0, 1)
    ELSE LET total_score == SumAssignmentScores(asg, DOMAIN asg)
         IN  Frac(total_score.num, total_score.den * Cardinality(DOMAIN asg))

-----------------------------------------------------------------------------
(* advanced_classifier.py: MoodAnalyzer.  Feature levels (brightness,      *)
(* saturation, complexity) are in thousandths, the unit round(x, 3) keeps *)
(* for the profiles the classifier stores; a confidence is an exact        *)
(* fraction of 1 until analyze_mood rounds it to thousandths.              *)

EmptyDict == [k \in {} |-> None]

\* d.get(key, default)
Get(d, key, default) == IF key \in DOMAIN d THEN d[key] ELSE default

\* _determine_primary_mood with the saturation rule tried before the
\* low-brightness rule
_determine_primary_mood_reordered(brightness, saturation, temperature, complexity) ==
    IF brightness > 700 /\ saturation > 500
    THEN (IF temperature = "warm" THEN "energetic" ELSE "serene")
    ELSE IF saturation > 700
    THEN (IF temperature = "warm" THEN "vibrant" ELSE "cinematic")
    ELSE IF brightness < 300
    THEN (IF complexity > 600 THEN "dramatic" ELSE "mysterious")
    ELSE IF complexity > 700
    THEN "dynamic"
    ELSE IF brightness > 500 /\ saturation < 300
    THEN "peaceful"
    ELSE "balanced"

_determine_primary_mood(brightness, saturation, temperature, complexity) ==
    IF brightness > 700 /\ saturation > 500
    THEN (IF temperature = "warm" THEN "energetic" ELSE "serene")
    ELSE IF brightness < 300
    THEN (IF complexity > 600 THEN "dramatic" ELSE "mysterious")
    ELSE IF saturation > 700
    THEN (IF temperature = "warm" THEN "vibrant" ELSE "cinematic")
    ELSE IF complexity > 700
    THEN "dynamic"
    ELSE IF brightness > 500 /\ saturation < 300
    THEN "peaceful"
    ELSE "balanced"

\* _calculate_mood_confidence with the lower clamp forgotten
_calculate_mood_confidence_no_floor(brightness, saturation, complexity) ==
    LET sum == 2 * Abs(brightness - 500) + 2 * Abs(saturation - 500)
               + 2 * Abs(complexity - 500)
    IN  Frac(Min(sum, 2850), 3000)

\* the three |x - 0.5| * 2 are in thousandths, so their mean is sum/3000; the
\* clamp min(max(avg, 0.3), 0.95) is taken on the numerator: 0.3 = 900/3000 and
\* 0.95 = 2850/3000
_calculate_mood_confidence(brightness, saturation, complexity) ==
    LET brightness_conf == Abs(brightness - 500) * 2
        saturation_conf == Abs(saturation - 500) * 2
        complexity_conf == Abs(complexity - 500) * 2
        sum == brightness_conf + saturation_conf + complexity_conf
    IN  Frac(Min(Max(sum, 900), 2850), 3000)

\* energy_score = (saturation + complexity) / 2 against 0.7 and 0.4.  The
\* float sum agrees with the exact one on every pair drawn below; it exceeds
\* an exact 1.4 for a few pairs of thousandths such as 0.463 + 0.937.
_calculate_energy_level(saturation, complexity) ==
    IF saturation + complexity > 1400 THEN "high"
    ELSE IF saturation + complexity > 800 THEN "medium"
    ELSE "low"

\* _determine_emotional_tone answering neutral for every pair of brightness and
\* temperature that none of the four named rules covers
_determine_emotional_tone_named_only(brightness, temperature) ==
    IF brightness > 600 /\ temperature = "warm" THEN "uplifting"
    ELSE IF brightness > 600 /\ temperature = "cool" THEN "calm"
    ELSE IF brightness < 400 /\ temperature = "cool" THEN "contemplative"
    ELSE IF brightness < 400 /\ temperature = "warm" THEN "intense"
    ELSE "neutral"

_determine_emotional_tone(brightness, temperature) ==
    IF brightness > 600
    THEN (IF temperature = "warm" THEN "uplifting" ELSE "calm")
    ELSE IF brightness < 400
    THEN (IF temperature = "cool" THEN "contemplative" ELSE "intense")
    ELSE "neutral"

_get_fallback_mood ==
    [primary_mood |-> "balanced",
     emotional_tone |-> "neutral",
     energy_level |-> "medium",
     confidence |-> 500,
     mood_factors |-> [brightness_influence |-> 500,
                       saturation_influence |-> 500,
                       complexity_influence |-> 500,
                       temperature_influence |-> "neutral"]]

\* an argument that is no dict (None) makes .get raise; the except branch
\* returns the fallback mood.
analyze_mood(color_data, complexity_data) ==
    IF color_data = None \/ complexity_data = None
    THEN _get_fallback_mood
    ELSE
      LET brightness  == Get(color_data, "brightness", 500)
          saturation  == Get(color_data, "saturation", 500)
          temperature == Get(color_data, "temperature", "neutral")
          complexity  == Get(complexity_data, "overall_complexity", 500)
          confidence  == _calculate_mood_confidence(brightness, saturation, complexity)
      IN  [primary_mood |-> _determine_primary_mood(brightness, saturation, temperature,
                                                    complexity),
           emotional_tone |-> _determine_emotional_tone(brightness, temperature),
           energy_level |-> _calculate_energy_level(saturation, complexity),
           confidence |-> RoundTo(confidence.num, confidence.den, 1000),
           mood_factors |-> [brightness_influence |-> RoundTo(brightness, 1000, 1000),
                             saturation_influence |-> RoundTo(saturation, 1000, 1000),
                             complexity_influence |-> RoundTo(complexity, 1000, 1000),
                             temperature_influence |-> temperature]]


-----------------------------------------------------------------------------
(* advanced_classifier.py: ImageComplexityAnalyzer and                     *)
(* AdvancedImageClassifier.  What the imaging libraries read from a file   *)
(* is an input: `pil` is what Image.open yields (size and format, None     *)
(* when it raises), `colors` the profile analyze_colors computes (None     *)
(* when the extraction raises) and `cv` the measurements taken on the      *)
(* array cv2.imread returns (None when it returns None).  Profile fields   *)
(* are in thousandths, durations in tenths of a second, megapixels in      *)
(* hundredths.                                                             *)

_get_fallback_colors ==
    [dominant_color |-> "#1a1a2e",
     palette |-> <<"#1a1a2e", "#16213e", "#0f3460">>,
     temperature |-> "cool",
     harmony_type |-> "monochromatic",
     color_diversity |-> 300,
     brightness |-> 200,
     saturation |-> 500]

\* a path: of an image, or of a file tempfile.mkstemp(suffix='.png') made
ImagePath(name) == [dir |-> "images", name |-> name, serial |-> 0]

TempPath(serial) == [dir |-> "tmp", name |-> "tmp.png", serial |-> serial]

NoPath == [dir |-> "", name |-> "", serial |-> 0]

NoSize == <<0, 0>>

\* int(k / (width / height)) or int(k * (width / height)) for the exact
\* quotient n / d: the quotient is computed in doubles from the rounded
\* aspect_ratio, so where n / d is a whole number the double may lie just
\* below it and int() then gives one less (int(600 * (11 / 15)) = 439);
\* a quotient that is not whole is further from a whole number than the
\* rounding error and truncates to its floor
Truncations(n, d) ==
    IF n % d = 0 /\ n > 0 THEN {n \div d - 1, n \div d} ELSE {n \div d}

\* (new_width, new_height) of _preprocess_image_for_analysis
NewSizes(width, height) ==
    IF width > height
    THEN {<<800, new_height>> : new_height \in Truncations(800 * height, width)}
    ELSE {<<new_width, 600>> : new_width \in Truncations(600 * width, height)}

\* img.resize(new_size), mkstemp and resized_img.save(temp_path): resize
\* raises ValueError for a side below 1 and may raise for other reasons, before
\* mkstemp; save may raise after mkstemp made the file; the except branch
\* returns the original path
Resized(image_path, new_size, outcome, temp_path) ==
    IF new_size[1] < 1 \/ new_size[2] < 1 \/ outcome = "resize_raised"
    THEN [path |-> image_path, size |-> NoSize, created |-> {}]
    ELSE IF outcome = "save_raised"
    THEN [path |-> image_path, size |-> NoSize, created |-> {temp_path}]
    ELSE [path |-> temp_path, size |-> new_size, created |-> {temp_path}]

\* _preprocess_image_for_analysis resizing every image that is larger than the
\* box, whatever the size of its file
_preprocess_image_for_analysis_any_size(image_path, file, outcome, temp_path) ==
    IF file = None THEN {[raised |-> "FileNotFoundError"]}
    ELSE IF file.pil = None
    THEN {[path |-> image_path, size |-> NoSize, created |-> {}]}
    ELSE LET width  == file.pil.size[1]
             height == file.pil.size[2]
         IN  IF width <= 800 /\ height <= 600
             THEN {[path |-> image_path, size |-> NoSize, created |-> {}]}
             ELSE {Resized(image_path, new_size, outcome, temp_path) :
                      new_size \in NewSizes(width, height)}

\* _preprocess_image_for_analysis(image_path): the possible results, each the
\* path returned, the size of the resized image and the temporary files made.
\* os.path.getsize raises for a missing file, outside the try block; an
\* exception of Image.open, resize or save is caught and the original path is
\* returned.
_preprocess_image_for_analysis(image_path, file, outcome, temp_path) ==
    IF file = None THEN {[raised |-> "FileNotFoundError"]}
    ELSE IF file.size < 1024 * 1024
    THEN {[path |-> image_path, size |-> NoSize, created |-> {}]}
    ELSE IF file.pil = None
    THEN {[path |-> image_path, size |-> NoSize, created |-> {}]}
    ELSE LET width  == file.pil.size[1]
             height == file.pil.size[2]
         IN  IF width <= 800 /\ height <= 600
             THEN {[path |-> image_path, size |-> NoSize, created |-> {}]}
             ELSE {Resized(image_path, new_size, outcome, temp_path) :
                      new_size \in NewSizes(width, height)}

\* analyze_colors: the computed profile, or the fallback when the extraction raised
analyze_colors(colors) == IF colors = None THEN _get_fallback_colors ELSE colors

_get_fallback_complexity ==
    [edge_density |-> 300,
     texture_complexity |-> 500,
     color_complexity |-> 400,
     contrast |-> 600,
     overall_complexity |-> 450]

\* edge_pixels / total_pixels
_calculate_edge_density(cv) == Frac(cv.edge_pixels, cv.rows * cv.cols)

\* min(variance / 10000.0, 1.0), and 0.5 when the Laplacian raised
_calculate_texture_complexity(cv) ==
    IF cv.laplacian_raised THEN Frac(1, 2) ELSE Frac(Min(cv.variance, 10000), 10000)

\* min(unique_colors / 10000.0, 1.0)
_calculate_color_complexity(cv) == Frac(Min(cv.unique_colors, 10000), 10000)

\* min(std / 128.0, 1.0)
_calculate_contrast(cv) == Frac(Min(cv.std, 128), 128)

\* the fraction p times tenths/10
Weigh(p, tenths) == Frac(p.num * tenths, p.den * 10)

\* analyze_complexity that returns the fallback profile for every file
analyze_complexity_fallback_only(cv) == _get_fallback_complexity

analyze_complexity(cv) ==
    IF cv = None
    THEN _get_fallback_complexity
    ELSE
      LET edge_density       == _calculate_edge_density(cv)
          texture_complexity == _calculate_texture_complexity(cv)
          color_complexity   == _calculate_color_complexity(cv)
          contrast           == _calculate_contrast(cv)
          overall_complexity == FracAdd(FracAdd(Weigh(edge_density, 3),
                                                Weigh(texture_complexity, 3)),
                                        FracAdd(Weigh(color_complexity, 2),
                                                Weigh(contrast, 2)))
      IN  [edge_density |-> RoundTo(edge_density.num, edge_density.den, 1000),
           texture_complexity |-> RoundTo(texture_complexity.num, texture_complexity.den,
                                          1000),
           color_complexity |-> RoundTo(color_complexity.num, color_complexity.den, 1000),
           contrast |-> RoundTo(contrast.num, contrast.den, 1000),
           overall_complexity |-> RoundTo(overall_complexity.num, overall_complexity.den,
                                          1000)]

\* round(8.0 + complexity * 4.0, 1) in tenths of a second
_calculate_display_duration(complexity_data) ==
    LET complexity == Get(complexity_data, "overall_complexity", 500)
    IN  RoundTo(8000 + complexity * 4, 1000, 10)

\* the mean of the three factors, each in thousandths, rounded to thousandths;
\* "" stands for the None of a missing key, which is in neither list
_calculate_cinematic_score(color_data, mood_data) ==
    LET temperature_factor ==
            IF Get(color_data, "temperature", "") \in {"cool", "warm"} THEN 700 ELSE 500
        brightness == Get(color_data, "brightness", 500)
        brightness_score == 1000 - Abs(brightness - 400)
        cinematic_moods == {"dramatic", "mysterious", "cinematic", "contemplative"}
        mood_factor ==
            IF Get(mood_data, "primary_mood", "") \in cinematic_moods THEN 800 ELSE 400
    IN  RoundTo(temperature_factor + brightness_score + mood_factor, 3000, 1000)

_get_fallback_classification(image_path, now) ==
    [basic_info |-> [filename |-> image_path,
                     width |-> 1920,
                     height |-> 1080,
                     aspect_ratio |-> 1778,
                     format |-> "Unknown",
                     megapixels |-> 207],
     color_analysis |-> _get_fallback_colors,
     complexity_analysis |-> _get_fallback_complexity,
     mood_analysis |-> _get_fallback_mood,
     classification_metadata |-> [analyzer_version |-> "2.0.0",
                                  confidence_score |-> 300,
                                  processing_timestamp |-> now,
                                  recommended_display_duration |-> 80,
                                  cinematic_score |-> 500]]

\* the try block of classify_image: the record it builds or the exception
\* it raises.  file is what image_path names on disk, None when nothing is
\* there; now is the clock reading _get_timestamp takes.
ClassifyTry(image_path, file, now) ==
    IF file = None
    THEN [raised |-> "FileNotFoundError"]
    ELSE IF file.pil = None
    THEN [raised |-> "UnidentifiedImageError"]
    ELSE
      LET width  == file.pil.size[1]
          height == file.pil.size[2]
          color_data      == analyze_colors(file.colors)
          complexity_data == analyze_complexity(file.cv)
          mood_data       == analyze_mood(color_data, complexity_data)
      IN  [basic_info |-> [filename |-> image_path,
                           width |-> width,
                           height |-> height,
                           aspect_ratio |-> RoundTo(width, height, 1000),
                           format |-> file.pil.format,
                           megapixels |-> RoundTo(width * height, 1000000, 100)],
           color_analysis |-> color_data,
           complexity_analysis |-> complexity_data,
           mood_analysis |-> mood_data,
           classification_metadata |->
               [analyzer_version |-> "2.0.0",
                confidence_score |-> Get(mood_data, "confidence", 500),
                processing_timestamp |-> now,
                recommended_display_duration |-> _calculate_display_duration(complexity_data),
                cinematic_score |-> _calculate_cinematic_score(color_data, mood_data)]]

Raised(r) == "raised" \in DOMAIN r

\* classify_image whose except clause lets the exception through
classify_image_reraising(image_path, file, now) == ClassifyTry(image_path, file, now)

\* classify_image giving up the whole record when one analyzer fell back
classify_image_all_or_nothing(image_path, file, now) ==
    LET classification_result == ClassifyTry(image_path, file, now)
    IN  IF Raised(classification_result) \/ file.colors = None \/ file.cv = None
        THEN _get_fallback_classification(image_path, now)
        ELSE classification_result

\* the try block, and "except Exception: return self._get_fallback_classification(image_path)"
classify_image(image_path, file, now) ==
    LET classification_result == ClassifyTry(image_path, file, now)
    IN  IF Raised(classification_result)
        THEN _get_fallback_classification(image_path, now)
        ELSE classification_result


-----------------------------------------------------------------------------
(* content_theme_analyzer.py: strings.  A Python string is the sequence of *)
(* its characters.                                                         *)

\* the lower-case letter of each upper-case letter
LowerCase ==
    [A |-> "a", B |-> "b", C |-> "c", D |-> "d", E |-> "e", F |-> "f", G |-> "g",
     H |-> "h", I |-> "i", J |-> "j", K |-> "k", L |-> "l", M |-> "m", N |-> "n",
     O |-> "o", P |-> "p", Q |-> "q", R |-> "r", S |-> "s", T |-> "t", U |-> "u",
     V |-> "v", W |-> "w", X |-> "x", Y |-> "y", Z |-> "z"]

LowerChar(c) == IF c \in DOMAIN LowerCase THEN LowerCase[c] ELSE c

\* str.lower()
RECURSIVE Lower(_)
Lower(str) ==
    IF str = <<>> THEN <<>> ELSE <<LowerChar(Head(str))>> \o Lower(Tail(str))

\* str.replace(ch, "")
RECURSIVE Remove(_, _)
Remove(str, ch) ==
    IF str = <<>> THEN <<>>
    ELSE IF Head(str) = ch THEN Remove(Tail(str), ch)
    ELSE <<Head(str)>> \o Remove(Tail(str), ch)

\* str.strip(): leading and trailing blanks removed
RECURSIVE StripLeft(_)
StripLeft(str) ==
    IF str # <<>> /\ Head(str) = " " THEN StripLeft(Tail(str)) ELSE str

RECURSIVE StripRight(_)
StripRight(str) ==
    IF str # <<>> /\ str[Len(str)] = " " THEN StripRight(SubSeq(str, 1, Len(str) - 1))
    ELSE str

Strip(str) == StripRight(StripLeft(str))

\* " ".join(strs)
RECURSIVE Join(_)
Join(strs) ==
    IF strs = <<>> THEN <<>>
    ELSE IF Len(strs) = 1 THEN strs[1]
    ELSE strs[1] \o <<" ">> \o Join(Tail(strs))

\* needle in hay
Contains(hay, needle) ==
    \E i \in 1..(Len(hay) - Len(needle) + 1) :
        \A j \in 1..Len(needle) : hay[i + j - 1] = needle[j]

\* the value of each hex digit
HexValue ==
    ("0" :> 0) @@ ("1" :> 1) @@ ("2" :> 2) @@ ("3" :> 3) @@ ("4" :> 4) @@ ("5" :> 5)
    @@ ("6" :> 6) @@ ("7" :> 7) @@ ("8" :> 8) @@ ("9" :> 9) @@ ("a" :> 10) @@ ("b" :> 11)
    @@ ("c" :> 12) @@ ("d" :> 13) @@ ("e" :> 14) @@ ("f" :> 15) @@ ("A" :> 10) @@ ("B" :> 11)
    @@ ("C" :> 12) @@ ("D" :> 13) @@ ("E" :> 14) @@ ("F" :> 15)

IsHexDigit(c) == c \in DOMAIN HexValue

\* int(str[i:i+2], 16) for two hex digits
HexByte(str, i) == 16 * HexValue[str[i]] + HexValue[str[i + 1]]

-----------------------------------------------------------------------------
(* content_theme_analyzer.py: colour indicators and colour matching *)

cyberfemme_indicators ==
    <<
       <<"f", "f", "0", "0", "f", "f">>, <<"f", "f", "1", "4", "9", "3">>, <<"f", "f", "6", "9", "b", "4">>,
       <<"d", "a", "7", "0", "d", "6">>, <<"c", "7", "1", "5", "8", "5">>, <<"d", "b", "7", "0", "9", "3">>,
       <<"8", "a", "2", "b", "e", "2">>, <<"9", "9", "3", "2", "c", "c">>, <<"8", "b", "0", "0", "8", "b">>,
       <<"4", "b", "0", "0", "8", "2">>, <<"6", "a", "0", "d", "a", "d">>, <<"b", "a", "5", "5", "d", "3">>,
       <<"9", "3", "7", "0", "d", "b">>, <<"7", "b", "6", "8", "e", "e">>, <<"9", "9", "6", "6", "c", "c">>,
       <<"a", "a", "0", "0", "f", "f">>, <<"8", "0", "0", "0", "f", "f">>, <<"0", "0", "f", "f", "f", "f">>,
       <<"0", "0", "0", "0", "f", "f">>, <<"1", "e", "9", "0", "f", "f">>, <<"0", "0", "b", "f", "f", "f">>,
       <<"4", "1", "6", "9", "e", "1">>, <<"0", "0", "8", "0", "f", "f">>, <<"0", "0", "6", "6", "f", "f">>,
       <<"3", "3", "6", "6", "f", "f">>, <<"6", "6", "0", "0", "f", "f">>
    >>

earth_indicators ==
    <<
       <<"8", "b", "4", "5", "1", "3">>, <<"a", "0", "5", "2", "2", "d">>, <<"c", "d", "8", "5", "3", "f">>,
       <<"d", "a", "a", "5", "2", "0">>, <<"b", "8", "8", "6", "0", "b">>, <<"d", "2", "6", "9", "1", "e">>,
       <<"f", "4", "a", "4", "6", "0">>, <<"d", "e", "b", "8", "8", "7">>, <<"b", "c", "8", "f", "8", "f">>,
       <<"f", "5", "d", "e", "b", "3">>, <<"2", "e", "8", "b", "5", "7">>, <<"2", "2", "8", "b", "2", "2">>,
       <<"5", "5", "6", "b", "2", "f">>, <<"6", "b", "8", "e", "2", "3">>, <<"8", "0", "8", "0", "0", "0">>,
       <<"8", "f", "b", "c", "8", "f">>
    >>

tech_indicators ==
    <<
       <<"0", "0", "0", "0", "0", "0">>, <<"f", "f", "f", "f", "f", "f">>, <<"8", "0", "8", "0", "8", "0">>,
       <<"c", "0", "c", "0", "c", "0">>, <<"6", "9", "6", "9", "6", "9">>, <<"2", "f", "4", "f", "4", "f">>,
       <<"1", "a", "1", "a", "1", "a">>, <<"0", "0", "8", "0", "f", "f">>, <<"0", "0", "6", "6", "c", "c">>,
       <<"0", "0", "3", "3", "6", "6">>, <<"1", "9", "1", "9", "7", "0">>, <<"0", "0", "0", "0", "8", "b">>
    >>

vintage_indicators ==
    <<
       <<"b", "8", "8", "6", "0", "b">>, <<"c", "d", "8", "5", "3", "f">>, <<"d", "a", "a", "5", "2", "0">>,
       <<"f", "5", "d", "e", "b", "3">>, <<"f", "f", "e", "4", "b", "5">>, <<"f", "f", "d", "a", "b", "9">>,
       <<"8", "b", "4", "5", "1", "3">>, <<"a", "0", "5", "2", "2", "d">>, <<"d", "2", "6", "9", "1", "e">>,
       <<"f", "f", "6", "3", "4", "7">>, <<"d", "c", "1", "4", "3", "c">>, <<"b", "2", "2", "2", "2", "2">>
    >>

\* colours with "#" removed, lowercased and stripped, those of length 6 kept
RECURSIVE _normalize_hex_colors(_)
_normalize_hex_colors(colors) ==
    IF colors = <<>> THEN <<>>
    ELSE LET normalized_color == Strip(Remove(Lower(Head(colors)), "#"))
         IN  IF Len(normalized_color) = 6
             THEN <<normalized_color>> \o _normalize_hex_colors(Tail(colors))
             ELSE _normalize_hex_colors(Tail(colors))

\* equal, or both six hex digits less than 40 apart in RGB; int(.., 16) of a
\* non-hex string raises ValueError, which gives False
_colors_match(color1, color2) ==
    IF color1 = color2 THEN TRUE
    ELSE IF Len(color1) = 6 /\ Len(color2) = 6
    THEN IF \A i \in 1..6 : IsHexDigit(color1[i]) /\ IsHexDigit(color2[i])
         THEN LET dr == HexByte(color1, 1) - HexByte(color2, 1)
                  dg == HexByte(color1, 3) - HexByte(color2, 3)
                  db == HexByte(color1, 5) - HexByte(color2, 5)
              IN  dr * dr + dg * dg + db * db < 40 * 40
         ELSE FALSE
    ELSE FALSE

_match_color_indicators(colors, indicators) ==
    \E i \in 1..Len(colors) : \E j \in 1..Len(indicators) :
        _colors_match(colors[i], indicators[j])

_has_cyberfemme_colors(colors) ==
    _match_color_indicators(_normalize_hex_colors(colors), cyberfemme_indicators)

\* any(indicator in " ".join(colors).lower() for indicator in indicators)
JoinedContainsAny(colors, indicators) ==
    LET color_str == Lower(Join(colors))
    IN  \E j \in 1..Len(indicators) : Contains(color_str, indicators[j])

_has_earth_tones(colors) == JoinedContainsAny(colors, earth_indicators)

_has_tech_colors(colors) == JoinedContainsAny(colors, tech_indicators)

_has_vintage_colors(colors) == JoinedContainsAny(colors, vintage_indicators)


-----------------------------------------------------------------------------
(* content_theme_analyzer.py: aggregation.  Brightness, saturation and      *)
(* complexity are in hundredths, their means exact fractions of hundredths. *)

Range(f) == {f[x] : x \in DOMAIN f}

RECURSIVE SumSeq(_)
SumSeq(seq) == IF seq = <<>> THEN 0 ELSE Head(seq) + SumSeq(Tail(seq))

\* statistics.mean
Mean(values) == Frac(SumSeq(values), Len(values))

\* statistics.pvariance, the population variance: the sum of squared deviations
\* from the mean divided by n
PopulationVariance(values) ==
    LET n == Len(values)
        squares == [i \in 1..n |-> values[i] * values[i]]
    IN  Frac(n * SumSeq(squares) - SumSeq(values) * SumSeq(values), n * n)

\* statistics.variance, the sample variance: sum of squared deviations from the
\* mean divided by n - 1, which is (n * sum(x^2) - sum(x)^2) / (n * (n - 1))
Variance(values) ==
    LET n == Len(values)
        squares == [i \in 1..n |-> values[i] * values[i]]
    IN  Frac(n * SumSeq(squares) - SumSeq(values) * SumSeq(values), n * (n - 1))

CountOf(seq, x) == Cardinality({i \in 1..Len(seq) : seq[i] = x})

\* the distinct elements of seq in the order of their first occurrence
RECURSIVE FirstSeen(_, _)
FirstSeen(seq, done) ==
    IF seq = <<>> THEN done
    ELSE IF \E i \in 1..Len(done) : done[i] = Head(seq)
         THEN FirstSeen(Tail(seq), done)
         ELSE FirstSeen(Tail(seq), Append(done, Head(seq)))

RECURSIVE InsertByCount(_, _, _)
InsertByCount(done, x, seq) ==
    IF done = <<>> THEN <<x>>
    ELSE IF CountOf(seq, Head(done)) >= CountOf(seq, x)
         THEN <<Head(done)>> \o InsertByCount(Tail(done), x, seq)
         ELSE <<x>> \o done

RECURSIVE SortByCount(_, _, _)
SortByCount(elems, n, seq) ==
    IF n = 0 THEN <<>>
    ELSE InsertByCount(SortByCount(elems, n - 1, seq), elems[n], seq)

\* [x for x, _ in Counter(seq).most_common(n)]: by count, descending, elements
\* of equal count in the order first seen
MostCommon(seq, n) ==
    LET elems == FirstSeen(seq, <<>>)
    IN  FirstN(SortByCount(elems, Len(elems), seq), n)

\* the values metadata.get(section, {}).get(key, default) over the files
Column(metadata_files, section, key, default) ==
    [i \in 1..Len(metadata_files) |->
        Get(Get(metadata_files[i], section, EmptyDict), key, default)]

RECURSIVE Concat(_)
Concat(seqs) == IF seqs = <<>> THEN <<>> ELSE Head(seqs) \o Concat(Tail(seqs))

\* the dominant colours that are present and not the empty string
RECURSIVE Truthy(_)
Truthy(colors) ==
    IF colors = <<>> THEN <<>>
    ELSE IF Head(colors) = <<>> THEN Truthy(Tail(colors))
    ELSE <<Head(colors)>> \o Truthy(Tail(colors))

_aggregate_color_data(metadata_files) ==
    LET all_colors == Truthy(Column(metadata_files, "color_analysis", "dominant_color", <<>>))
        all_palettes == Concat(Column(metadata_files, "color_analysis", "palette", <<>>))
        temperatures == Column(metadata_files, "color_analysis", "temperature", "neutral")
        harmonies == Column(metadata_files, "color_analysis", "harmony_type", "balanced")
        brightness_values == Column(metadata_files, "color_analysis", "brightness", 50)
        saturation_values == Column(metadata_files, "color_analysis", "saturation", 50)
    IN  [dominant_colors |-> MostCommon(all_colors \o all_palettes, 10),
         temperature_bias |-> IF temperatures # <<>> THEN MostCommon(temperatures, 1)[1]
                              ELSE "neutral",
         harmony_types |-> MostCommon(harmonies, 3),
         avg_brightness |-> IF brightness_values # <<>> THEN Mean(brightness_values)
                            ELSE Frac(50, 1),
         avg_saturation |-> IF saturation_values # <<>> THEN Mean(saturation_values)
                            ELSE Frac(50, 1),
         color_diversity |-> Frac(Cardinality(Range(all_palettes)),
                                  Max(Len(all_palettes), 1))]

_aggregate_mood_data(metadata_files) ==
    LET moods == Column(metadata_files, "mood_analysis", "primary_mood", "balanced")
        tones == Column(metadata_files, "mood_analysis", "emotional_tone", "neutral")
        energy_levels == Column(metadata_files, "mood_analysis", "energy_level", "medium")
    IN  [mood_distribution |->
             IF moods # <<>>
             THEN [mood \in Range(moods) |-> Frac(CountOf(moods, mood), Len(moods))]
             ELSE [mood \in {"balanced"} |-> Frac(1, 1)],
         dominant_tone |-> IF tones # <<>> THEN MostCommon(tones, 1)[1] ELSE "neutral",
         dominant_energy |-> IF energy_levels # <<>> THEN MostCommon(energy_levels, 1)[1]
                             ELSE "medium"]

_aggregate_complexity_data(metadata_files) ==
    LET complexity_values ==
            Column(metadata_files, "complexity_analysis", "overall_complexity", 50)
    IN  IF complexity_values = <<>>
        THEN [avg_complexity |-> Frac(50, 1), complexity_variance |-> Frac(0, 1)]
        ELSE [avg_complexity |-> Mean(complexity_values),
              complexity_variance |-> IF Len(complexity_values) > 1
                                      THEN Variance(complexity_values)
                                      ELSE Frac(0, 1)]

-----------------------------------------------------------------------------
(* content_theme_analyzer.py: theme scoring and selection *)

\* p < n/d for a fraction p
FracLess(p, n, d) == p.num * d < n * p.den

AnyMood(mood_dist, moods) == \E mood \in DOMAIN mood_dist : mood \in moods

(* The scores are Python floats, IEEE 754 doubles.  A double is the record     *)
(* [h, e] of value h/100 + e * w for w = 2^-56 / 25.  In units of w the        *)
(* decimal h/100 is h * 2^54, and the doubles of [2^j / 16, 2^j / 8) are the   *)
(* multiples of 25 * 2^j; values in [1/16, 2), and zero, are covered.          *)

\* h * 2^54 modulo 800: 0 modulo 32 and 9 * h modulo 25
DecimalMod800(h) == 32 * ((12 * h) % 25)

\* h/100 + e * w >= quarters/400
AtLeast(h, e, quarters) == 4 * h > quarters \/ (4 * h = quarters /\ e >= 0)

\* the spacing of the doubles around h/100 + e * w
Ulp(h, e) ==
    IF AtLeast(h, e, 400) THEN 400
    ELSE IF AtLeast(h, e, 200) THEN 200
    ELSE IF AtLeast(h, e, 100) THEN 100
    ELSE IF AtLeast(h, e, 50) THEN 50
    ELSE 25

\* the double nearest to h/100 + e * w, ties to the even mantissa
RoundToDouble(h, e) ==
    IF h = 0 /\ e = 0 THEN [h |-> 0, e |-> 0]
    ELSE LET ulp == Ulp(h, e)
             above == (DecimalMod800(h) + e + 1600) % ulp
             down == e - above
             up == down + ulp
         IN  IF 2 * above < ulp THEN [h |-> h, e |-> down]
             ELSE IF 2 * above > ulp THEN [h |-> h, e |-> up]
             ELSE IF (DecimalMod800(h) + down + 1600) % (2 * ulp) = 0
             THEN [h |-> h, e |-> down]
             ELSE [h |-> h, e |-> up]

\* the float literal of h hundredths
Float(h) == RoundToDouble(h, 0)

FloatAdd(a, b) == RoundToDouble(a.h + b.h, a.e + b.e)

FloatLess(a, b) == a.h < b.h \/ (a.h = b.h /\ a.e < b.e)

\* min(a, b)
FloatMin(a, b) == IF FloatLess(b, a) THEN b ELSE a

\* if cond: score += points
Plus(score, cond, points) == IF cond THEN FloatAdd(score, Float(points)) ELSE score

\* _calculate_cyberfemme_score that gives no points for the colours
_calculate_cyberfemme_score_colourless(color_data, mood_data) ==
    LET saturation == Plus(Float(0), FracGreater(color_data.avg_saturation, 60, 1), 20)
        moods == Plus(saturation,
                      AnyMood(mood_data.mood_distribution,
                              {"vibrant", "cinematic", "dramatic", "energetic"}), 30)
    IN  Plus(moods, mood_data.dominant_energy = "high", 10)

_calculate_cyberfemme_score(color_data, mood_data) ==
    LET colors == Plus(Float(0), _has_cyberfemme_colors(color_data.dominant_colors), 40)
        saturation == Plus(colors, FracGreater(color_data.avg_saturation, 60, 1), 20)
        moods == Plus(saturation,
                      AnyMood(mood_data.mood_distribution,
                              {"vibrant", "cinematic", "dramatic", "energetic"}), 30)
    IN  Plus(moods, mood_data.dominant_energy = "high", 10)

_calculate_organic_score(color_data, mood_data) ==
    LET colors == Plus(Float(0), _has_earth_tones(color_data.dominant_colors), 40)
        temperature == Plus(colors, color_data.temperature_bias = "warm", 20)
        moods == Plus(temperature,
                      AnyMood(mood_data.mood_distribution,
                              {"peaceful", "serene", "balanced"}), 30)
    IN  Plus(moods, mood_data.dominant_energy \in {"low", "medium"}, 10)

_calculate_tech_score(color_data, mood_data, complexity_data) ==
    LET colors == Plus(Float(0), _has_tech_colors(color_data.dominant_colors), 40)
        temperature == Plus(colors, color_data.temperature_bias = "cool", 20)
        moods == Plus(temperature,
                      AnyMood(mood_data.mood_distribution,
                              {"dynamic", "dramatic", "cinematic"}), 20)
        complexity == Plus(moods, FracGreater(complexity_data.avg_complexity, 60, 1), 10)
    IN  Plus(complexity,
             FracLess(color_data.avg_brightness, 40, 1)
             \/ FracGreater(color_data.avg_brightness, 80, 1), 10)

_calculate_vintage_score(color_data, mood_data) ==
    LET colors == Plus(Float(0), _has_vintage_colors(color_data.dominant_colors), 40)
        muted == Plus(colors,
                      color_data.temperature_bias = "warm"
                      /\ FracLess(color_data.avg_saturation, 60, 1), 30)
        moods == Plus(muted,
                      AnyMood(mood_data.mood_distribution,
                              {"contemplative", "peaceful", "balanced"}), 20)
    IN  Plus(moods,
             FracGreater(color_data.avg_brightness, 30, 1)
             /\ FracLess(color_data.avg_brightness, 70, 1), 10)

\* the keys of theme_scores in insertion order
ThemeOrder == <<"cyberfemme", "organic", "tech", "vintage">>

ThemeScores(color_data, mood_data, complexity_data) ==
    [cyberfemme |-> _calculate_cyberfemme_score(color_data, mood_data),
     organic |-> _calculate_organic_score(color_data, mood_data),
     tech |-> _calculate_tech_score(color_data, mood_data, complexity_data),
     vintage |-> _calculate_vintage_score(color_data, mood_data)]

\* max(theme_scores.values())
MaxScore(theme_scores) ==
    CHOOSE m \in Range(theme_scores) : \A x \in Range(theme_scores) : ~FloatLess(m, x)

\* max(theme_scores.keys(), key=...): the first key of the maximal score
BestTheme(theme_scores) ==
    LET first == CHOOSE i \in 1..Len(ThemeOrder) :
                    /\ theme_scores[ThemeOrder[i]] = MaxScore(theme_scores)
                    /\ \A j \in 1..(i - 1) :
                          theme_scores[ThemeOrder[j]] # MaxScore(theme_scores)
    IN  ThemeOrder[first]

\* the selection with the winning score returned uncapped
SelectThemeUncapped(theme_scores) ==
    IF FloatLess(MaxScore(theme_scores), Float(30))
    THEN <<"adaptive", Float(50)>>
    ELSE <<BestTheme(theme_scores), theme_scores[BestTheme(theme_scores)]>>

\* the selection with the fallback taken for a maximum of 0.3 as well
SelectThemeInclusive(theme_scores) ==
    IF ~FloatLess(Float(30), MaxScore(theme_scores))
    THEN <<"adaptive", Float(50)>>
    ELSE <<BestTheme(theme_scores),
           FloatMin(theme_scores[BestTheme(theme_scores)], Float(95))>>

\* <<theme_name, confidence>> for the four scores
SelectTheme(theme_scores) ==
    IF FloatLess(MaxScore(theme_scores), Float(30))
    THEN <<"adaptive", Float(50)>>
    ELSE <<BestTheme(theme_scores),
           FloatMin(theme_scores[BestTheme(theme_scores)], Float(95))>>

_detect_theme_pattern(color_data, mood_data, complexity_data) ==
    SelectTheme(ThemeScores(color_data, mood_data, complexity_data))

\* _generate_accent_colors whose adaptive branch takes every colour after the fourth
_generate_accent_colors_unbounded(theme_name, color_data) ==
    CASE theme_name = "cyberfemme" -> <<<<"#", "f", "f", "0", "0", "f", "f">>, <<"#", "0", "0", "f", "f", "f", "f">>, <<"#", "f", "f", "1", "4", "9", "3">>, <<"#", "9", "3", "7", "0", "d", "b">>>>
      [] theme_name = "organic"    -> <<<<"#", "8", "f", "b", "c", "8", "f">>, <<"#", "d", "a", "a", "5", "2", "0">>, <<"#", "f", "4", "a", "4", "6", "0">>, <<"#", "9", "0", "e", "e", "9", "0">>>>
      [] theme_name = "tech"       -> <<<<"#", "0", "0", "8", "0", "f", "f">>, <<"#", "0", "0", "b", "f", "f", "f">>, <<"#", "f", "f", "f", "f", "f", "f">>, <<"#", "c", "0", "c", "0", "c", "0">>>>
      [] theme_name = "vintage"    -> <<<<"#", "d", "a", "a", "5", "2", "0">>, <<"#", "c", "d", "8", "5", "3", "f">>, <<"#", "f", "5", "d", "e", "b", "3">>, <<"#", "f", "f", "e", "4", "b", "5">>>>
      [] OTHER -> IF Len(color_data.dominant_colors) > 4
                  THEN SubSeq(color_data.dominant_colors, 5, Len(color_data.dominant_colors))
                  ELSE <<<<"#", "f", "f", "f", "f", "f", "f">>>>

_generate_accent_colors(theme_name, color_data) ==
    CASE theme_name = "cyberfemme" -> <<<<"#", "f", "f", "0", "0", "f", "f">>, <<"#", "0", "0", "f", "f", "f", "f">>, <<"#", "f", "f", "1", "4", "9", "3">>, <<"#", "9", "3", "7", "0", "d", "b">>>>
      [] theme_name = "organic"    -> <<<<"#", "8", "f", "b", "c", "8", "f">>, <<"#", "d", "a", "a", "5", "2", "0">>, <<"#", "f", "4", "a", "4", "6", "0">>, <<"#", "9", "0", "e", "e", "9", "0">>>>
      [] theme_name = "tech"       -> <<<<"#", "0", "0", "8", "0", "f", "f">>, <<"#", "0", "0", "b", "f", "f", "f">>, <<"#", "f", "f", "f", "f", "f", "f">>, <<"#", "c", "0", "c", "0", "c", "0">>>>
      [] theme_name = "vintage"    -> <<<<"#", "d", "a", "a", "5", "2", "0">>, <<"#", "c", "d", "8", "5", "3", "f">>, <<"#", "f", "5", "d", "e", "b", "3">>, <<"#", "f", "f", "e", "4", "b", "5">>>>
      [] OTHER -> IF Len(color_data.dominant_colors) > 4
                  THEN SubSeq(color_data.dominant_colors, 5,
                              Min(8, Len(color_data.dominant_colors)))
                  ELSE <<<<"#", "f", "f", "f", "f", "f", "f">>>>

\* <<primary_colors, accent_colors>>
_generate_color_palettes(color_data, theme_name) ==
    IF color_data.dominant_colors = <<>>
    THEN CASE theme_name = "cyberfemme" ->
                << <<<<"#", "1", "a", "1", "a", "2", "e">>, <<"#", "1", "6", "2", "1", "3", "e">>, <<"#", "0", "f", "3", "4", "6", "0">>>>,
                   <<<<"#", "f", "f", "0", "0", "f", "f">>, <<"#", "0", "0", "f", "f", "f", "f">>, <<"#", "f", "f", "1", "4", "9", "3">>, <<"#", "9", "9", "3", "2", "c", "c">>>> >>
           [] theme_name = "organic" ->
                << <<<<"#", "2", "e", "4", "a", "3", "d">>, <<"#", "4", "a", "6", "7", "4", "1">>, <<"#", "6", "b", "8", "e", "2", "3">>>>,
                   <<<<"#", "8", "f", "b", "c", "8", "f">>, <<"#", "d", "a", "a", "5", "2", "0">>, <<"#", "c", "d", "8", "5", "3", "f">>>> >>
           [] theme_name = "tech" ->
                << <<<<"#", "1", "a", "1", "a", "1", "a">>, <<"#", "2", "f", "2", "f", "2", "f">>, <<"#", "4", "0", "4", "0", "4", "0">>>>,
                   <<<<"#", "0", "0", "8", "0", "f", "f">>, <<"#", "0", "0", "b", "f", "f", "f">>, <<"#", "f", "f", "f", "f", "f", "f">>>> >>
           [] OTHER ->
                << <<<<"#", "3", "d", "2", "f", "1", "f">>, <<"#", "5", "d", "4", "0", "3", "7">>, <<"#", "7", "9", "5", "5", "4", "8">>>>,
                   <<<<"#", "d", "a", "a", "5", "2", "0">>, <<"#", "c", "d", "8", "5", "3", "f">>, <<"#", "b", "8", "8", "6", "0", "b">>>> >>
    ELSE << FirstN(color_data.dominant_colors, 4),
            _generate_accent_colors(theme_name, color_data) >>

ThemeProfile(name, confidence, primary, accent, temperature, moods, energy, complexity, harmony) ==
    [theme_name |-> name, confidence |-> confidence,
     primary_colors |-> primary, accent_colors |-> accent,
     temperature_bias |-> temperature, mood_profile |-> moods,
     energy_level |-> energy, complexity_preference |-> complexity,
     harmony_types |-> harmony]

_generate_theme_profile(color_data, mood_data, complexity_data) ==
    LET detected == _detect_theme_pattern(color_data, mood_data, complexity_data)
        palettes == _generate_color_palettes(color_data, detected[1])
    IN  ThemeProfile(detected[1], detected[2], palettes[1], palettes[2],
                     color_data.temperature_bias, mood_data.mood_distribution,
                     mood_data.dominant_energy, complexity_data.avg_complexity,
                     color_data.harmony_types)

_get_fallback_theme ==
    ThemeProfile("adaptive", Float(50),
                 <<<<"#", "1", "a", "1", "a", "2", "e">>, <<"#", "1", "6", "2", "1", "3", "e">>, <<"#", "0", "f", "3", "4", "6", "0">>>>,
                 <<<<"#", "f", "f", "f", "f", "f", "f">>, <<"#", "c", "0", "c", "0", "c", "0">>, <<"#", "8", "0", "8", "0", "8", "0">>>>,
                 "neutral", [mood \in {"balanced"} |-> Frac(1, 1)], "medium", Frac(50, 1),
                 <<"balanced">>)

\* a file of the metadata directory: text that json.load rejects, a JSON array,
\* or a JSON object
InvalidFile == [json |-> "invalid"]
ArrayFile == [json |-> "array"]
ObjectFile(object) == [json |-> "object", object |-> object]

\* the parsed files, those json.load rejects skipped; a missing directory gives
\* the empty list
RECURSIVE LoadFiles(_)
LoadFiles(files) ==
    IF files = <<>> THEN <<>>
    ELSE IF Head(files).json = "invalid" THEN LoadFiles(Tail(files))
    ELSE <<Head(files)>> \o LoadFiles(Tail(files))

_load_metadata_files(metadata_directory) ==
    IF ~metadata_directory.exists THEN <<>>
    ELSE LoadFiles(metadata_directory.files)

\* metadata.get(..) of a parsed file that is no JSON object, and
\* color_data.get(..) of a "color_analysis" that is null, raise AttributeError
\* in _aggregate_color_data
AggregationRaises(loaded) ==
    \E i \in 1..Len(loaded) :
        \/ loaded[i].json # "object"
        \/ Get(loaded[i].object, "color_analysis", EmptyDict) = None

\* analyze_collection_theme without the test for an empty list of records
analyze_collection_theme_unguarded(metadata_directory) ==
    LET loaded == _load_metadata_files(metadata_directory)
    IN  IF AggregationRaises(loaded)
        THEN _get_fallback_theme
        ELSE LET metadata_files == [i \in 1..Len(loaded) |-> loaded[i].object]
             IN  _generate_theme_profile(_aggregate_color_data(metadata_files),
                                         _aggregate_mood_data(metadata_files),
                                         _aggregate_complexity_data(metadata_files))

\* the except branch returns the fallback theme when the aggregation raises
analyze_collection_theme(metadata_directory) ==
    LET loaded == _load_metadata_files(metadata_directory)
    IN  IF loaded = <<>>
        THEN _get_fallback_theme
        ELSE IF AggregationRaises(loaded)
        THEN _get_fallback_theme
        ELSE LET metadata_files == [i \in 1..Len(loaded) |-> loaded[i].object]
             IN  _generate_theme_profile(_aggregate_color_data(metadata_files),
                                         _aggregate_mood_data(metadata_files),
                                         _aggregate_complexity_data(metadata_files))


-----------------------------------------------------------------------------
(* content_theme_analyzer.py: ContentThemeCache.  The cache file is None   *)
(* while it does not exist, and otherwise the text in it: a JSON object    *)
(* (the dict json.load gives back for what json.dump wrote), no text at    *)
(* all, or text json.load rejects.  The writes and reads of the file may   *)
(* fail with IOError, which save_cache and load_cache catch.               *)

EmptyFile == [json |-> "empty"]

\* ThemeProfile.to_dict
to_dict(theme) ==
    [theme_name |-> theme.theme_name,
     confidence |-> theme.confidence,
     primary_colors |-> theme.primary_colors,
     accent_colors |-> theme.accent_colors,
     temperature_bias |-> theme.temperature_bias,
     mood_profile |-> theme.mood_profile,
     energy_level |-> theme.energy_level,
     complexity_preference |-> theme.complexity_preference,
     harmony_types |-> theme.harmony_types]

\* load_cache: self.cache afterwards.  readable is FALSE when open or read
\* raises IOError.
load_cache(cache, file, readable) ==
    IF file = None THEN cache
    ELSE IF ~readable THEN EmptyDict
    ELSE IF file.json # "object" THEN EmptyDict
    ELSE file.object

\* __init__: self.cache = {} and load_cache()
ContentThemeCache(file, readable) == load_cache(EmptyDict, file, readable)

\* save_cache that never writes
save_cache_skipped(cache, file, outcome) == file

\* save_cache: the file afterwards.  The write succeeds ("written"), or an
\* IOError is caught: mkdir or open refuses ("refused", file untouched), or
\* the write fails after open truncated the file ("emptied") or part of the
\* text was written ("truncated").
save_cache(cache, file, outcome) ==
    CASE outcome = "written"   -> ObjectFile(cache)
      [] outcome = "refused"   -> file
      [] outcome = "emptied"   -> EmptyFile
      [] outcome = "truncated" -> InvalidFile

get_theme(cache, collection_hash) ==
    IF collection_hash \in DOMAIN cache
    THEN LET data == cache[collection_hash]
         IN  ThemeProfile(data["theme_name"], data["confidence"], data["primary_colors"],
                          data["accent_colors"], data["temperature_bias"],
                          data["mood_profile"], data["energy_level"],
                          data["complexity_preference"], data["harmony_types"])
    ELSE None

\* set_theme that drops the entries of the other keys
set_theme_clearing(cache, collection_hash, theme) == collection_hash :> to_dict(theme)

\* set_theme: self.cache afterwards
set_theme(cache, collection_hash, theme) == (collection_hash :> to_dict(theme)) @@ cache

-----------------------------------------------------------------------------
(* BentoOptimizer as a state machine *)

Filenames == {"a.jpg", "b.jpg"}

\* width and height of the records offered in lists: ratios 0.5, 0.75, 1.0,
\* 1.6, 2.5 and 4.0, and a record of height 0
Shapes == {<<1, 2>>, <<3, 4>>, <<1, 1>>, <<8, 5>>, <<5, 2>>, <<4, 1>>, <<1, 0>>}

Metadatas ==
    {[filename |-> f, width |-> s[1], height |-> s[2]] : f \in Filenames, s \in Shapes}

ImageLists(n) == UNION {[1..k -> Metadatas] : k \in 0..n}

\* lists for a whole pattern: seven records with seven filenames, one more
\* than any pattern has slots, and seven records with five filenames
GalleryLists ==
    { << [filename |-> "g1.jpg", width |-> 1, height |-> 2],
         [filename |-> "g2.jpg", width |-> 3, height |-> 4],
         [filename |-> "g3.jpg", width |-> 1, height |-> 1],
         [filename |-> "g4.jpg", width |-> 8, height |-> 5],
         [filename |-> "g5.jpg", width |-> 5, height |-> 2],
         [filename |-> "g6.jpg", width |-> 4, height |-> 1],
         [filename |-> "g7.jpg", width |-> 1, height |-> 1] >>,
      << [filename |-> "g1.jpg", width |-> 1, height |-> 2],
         [filename |-> "g2.jpg", width |-> 3, height |-> 4],
         [filename |-> "g1.jpg", width |-> 1, height |-> 1],
         [filename |-> "g4.jpg", width |-> 8, height |-> 5],
         [filename |-> "g5.jpg", width |-> 5, height |-> 2],
         [filename |-> "g2.jpg", width |-> 4, height |-> 1],
         [filename |-> "g7.jpg", width |-> 1, height |-> 1] >> }

\* the image lists handed to optimize_layout
LayoutLists == ImageLists(MaxLayoutImages) \cup GalleryLists

CatalogueNames == {_create_bento_patterns[i].name : i \in 1..Len(_create_bento_patterns)}

PatternNames == CatalogueNames \cup {"no_such_pattern"}

NoCall == [op |-> "none"]

EmptyAssignments == [k \in {} |-> None]

\* the ContentThemeCache objects of the processes that share the cache file
Instances == {"first", "second"}

Init ==
    /\ patterns = _create_bento_patterns
    /\ pc = "idle"
    /\ call = NoCall
    /\ ret = None
    /\ analyses = <<>>
    /\ sorted_slots = <<>>
    /\ slot_idx = 0
    /\ assignments = EmptyAssignments
    /\ used_images = {}
    /\ invoked = <<>>
    /\ cache_file = None
    /\ caches = [instance \in Instances |-> None]
    /\ latest = [instance \in Instances |-> EmptyDict]
    /\ earlier = NoCall
    /\ temp_files = {}
    /\ processed_image_path = NoPath
    /\ resized_img = NoSize

LoopLocalsIdle ==
    /\ analyses' = <<>>
    /\ sorted_slots' = <<>>
    /\ slot_idx' = 0
    /\ assignments' = EmptyAssignments
    /\ used_images' = {}

\* analyze_image(metadata)
AnalyzeImage ==
    /\ pc = "idle"
    /\ call = NoCall
    /\ \E f \in Filenames, w \in 0..MaxWidth, h \in 0..MaxHeight :
         LET metadata == [filename |-> f, width |-> w, height |-> h]
         IN  /\ call' = [op |-> "analyze_image", metadata |-> metadata]
             /\ ret' = analyze_image(metadata)
    /\ UNCHANGED <<patterns, pc, analyses, sorted_slots, slot_idx, assignments, used_images>>

\* analyze_collection(image_metadatas)
AnalyzeCollection ==
    /\ pc = "idle"
    /\ call = NoCall
    /\ \E image_metadatas \in ImageLists(MaxCollectionImages) :
         /\ call' = [op |-> "analyze_collection", image_metadatas |-> image_metadatas]
         /\ ret' = analyze_collection(image_metadatas)
    /\ UNCHANGED <<patterns, pc, analyses, sorted_slots, slot_idx, assignments, used_images>>

\* OptimizeLayout with pattern.slots.sort(...) in place of sorted(pattern.slots, ...)
OptimizeLayoutSortingInPlace ==
    /\ pc = "idle"
    /\ call = NoCall
    /\ \E pattern_name \in PatternNames, image_metadatas \in LayoutLists :
         LET pattern == FindPattern(patterns, pattern_name)
         IN  /\ call' = [op |-> "optimize_layout", pattern_name |-> pattern_name,
                         image_metadatas |-> image_metadatas]
             /\ IF pattern = None
                THEN /\ ret' = [error |-> [message |-> "not found", pattern |-> pattern_name]]
                     /\ UNCHANGED <<patterns, pc, analyses, sorted_slots, slot_idx,
                                    assignments, used_images>>
                ELSE /\ ret' = None
                     /\ pc' = "slots"
                     /\ analyses' = AnalyzeAll(image_metadatas)
                     /\ sorted_slots' = SortSlots(pattern.slots)
                     /\ patterns' = [i \in 1..Len(patterns) |->
                                        IF patterns[i] = pattern
                                        THEN [pattern EXCEPT !.slots = SortSlots(@)]
                                        ELSE patterns[i]]
                     /\ slot_idx' = 1
                     /\ assignments' = EmptyAssignments
                     /\ used_images' = {}

\* optimize_layout(pattern_name, image_metadatas), up to the slot loop: the
\* pattern lookup, the not-found return, the analysis and the sort
OptimizeLayout ==
    /\ pc = "idle"
    /\ call = NoCall
    /\ \E pattern_name \in PatternNames, image_metadatas \in LayoutLists :
         LET pattern == FindPattern(patterns, pattern_name)
         IN  /\ call' = [op |-> "optimize_layout", pattern_name |-> pattern_name,
                         image_metadatas |-> image_metadatas]
             /\ IF pattern = None
                THEN /\ ret' = [error |-> [message |-> "not found", pattern |-> pattern_name]]
                     /\ UNCHANGED <<pc, analyses, sorted_slots, slot_idx, assignments,
                                    used_images>>
                ELSE /\ ret' = None
                     /\ pc' = "slots"
                     /\ analyses' = AnalyzeAll(image_metadatas)
                     /\ sorted_slots' = SortSlots(pattern.slots)
                     /\ slot_idx' = 1
                     /\ assignments' = EmptyAssignments
                     /\ used_images' = {}
    /\ UNCHANGED patterns

\* one iteration of "for slot in sorted_slots"
OptimizeSlot ==
    /\ pc = "slots"
    /\ slot_idx <= Len(sorted_slots)
    /\ LET slot == sorted_slots[slot_idx]
           best_image == _find_best_image_for_slot(slot, analyses, used_images)
       IN  IF best_image # None
           THEN /\ assignments' = (SlotKey(slot) :> Assignment(best_image, slot)) @@ assignments
                /\ used_images' = used_images \cup {best_image.filename}
           ELSE UNCHANGED <<assignments, used_images>>
    /\ slot_idx' = slot_idx + 1
    /\ UNCHANGED <<patterns, pc, call, ret, analyses, sorted_slots>>

\* the return of optimize_layout after the loop
OptimizeReturn ==
    /\ pc = "slots"
    /\ slot_idx > Len(sorted_slots)
    /\ ret' = [pattern |-> call.pattern_name,
               assignments |-> assignments,
               total_slots |-> Len(FindPattern(patterns, call.pattern_name).slots),
               filled_slots |-> Cardinality(DOMAIN assignments),
               optimization_score |-> _calculate_optimization_score(assignments)]
    /\ pc' = "idle"
    /\ LoopLocalsIdle
    /\ UNCHANGED <<patterns, call>>

\* the caller is done with the returned value (bento_gallery.py drops its
\* local "result" when _populate_bento_grid returns); the next call may start
ResultConsumed ==
    /\ pc = "idle"
    /\ call # NoCall
    /\ call' = NoCall
    /\ ret' = None
    /\ invoked' = <<>>
    /\ UNCHANGED <<patterns, pc, analyses, sorted_slots, slot_idx, assignments, used_images>>

BentoNext ==
    \/ AnalyzeImage
    \/ AnalyzeCollection
    \/ OptimizeLayout
    \/ OptimizeSlot
    \/ OptimizeReturn

\* the optimize_layout arguments whose first result is remembered
Probes ==
    { [pattern_name |-> "portrait_showcase",
       image_metadatas |-> << [filename |-> "a.jpg", width |-> 1, height |-> 2],
                              [filename |-> "b.jpg", width |-> 8, height |-> 5] >>] }

SameArguments(c, e) ==
    /\ c.op = "optimize_layout"
    /\ e.op = "optimize_layout"
    /\ c.pattern_name = e.pattern_name
    /\ c.image_metadatas = e.image_metadatas

\* ResultConsumed, noting in the history the first result of a probe call and
\* afterwards that a call with other arguments has returned
ResultRemembered ==
    /\ ResultConsumed
    /\ earlier' =
         IF earlier = NoCall
         THEN IF /\ call.op = "optimize_layout"
                 /\ [pattern_name |-> call.pattern_name,
                     image_metadatas |-> call.image_metadatas] \in Probes
              THEN [op |-> "optimize_layout", pattern_name |-> call.pattern_name,
                    image_metadatas |-> call.image_metadatas, ret |-> ret,
                    between |-> FALSE]
              ELSE earlier
         ELSE IF SameArguments(call, earlier) THEN earlier
              ELSE [earlier EXCEPT !.between = TRUE]

\* one BentoOptimizer and the calls made on it, with the history
BentoHistoryNext ==
    \/ BentoNext /\ UNCHANGED <<theme_vars, cache_vars, history_vars, color_vars>>
    \/ ResultRemembered /\ UNCHANGED <<cache_vars, color_vars>>

BentoSpec == Init /\ [][BentoHistoryNext]_vars

-----------------------------------------------------------------------------
(* MoodAnalyzer as a state machine *)

\* feature levels 0.0, 0.1, ..., 1.0 in thousandths
Levels == {100 * i : i \in 0..10}

Temperatures == {"warm", "cool", "neutral"}

\* a dict with the key absent or bound to one of values
Optional(key, values) == {EmptyDict} \cup {key :> v : v \in values}

ColorDatas ==
    {None} \cup
    {b @@ s @@ t : b \in Optional("brightness", Levels),
                   s \in Optional("saturation", Levels),
                   t \in Optional("temperature", Temperatures)}

ComplexityDatas == {None} \cup Optional("overall_complexity", Levels)

\* _determine_primary_mood(brightness, saturation, temperature, complexity)
DeterminePrimaryMood ==
    /\ pc = "idle"
    /\ call = NoCall
    /\ \E b \in Levels, s \in Levels, t \in Temperatures, c \in Levels :
         /\ call' = [op |-> "_determine_primary_mood", brightness |-> b, saturation |-> s,
                     temperature |-> t, complexity |-> c]
         /\ ret' = [value |-> _determine_primary_mood(b, s, t, c)]
    /\ UNCHANGED <<patterns, pc, analyses, sorted_slots, slot_idx, assignments, used_images>>

\* _determine_emotional_tone(brightness, temperature)
DetermineEmotionalTone ==
    /\ pc = "idle"
    /\ call = NoCall
    /\ \E b \in Levels, t \in Temperatures :
         /\ call' = [op |-> "_determine_emotional_tone", brightness |-> b, temperature |-> t]
         /\ ret' = [value |-> _determine_emotional_tone(b, t)]
    /\ UNCHANGED <<patterns, pc, analyses, sorted_slots, slot_idx, assignments, used_images>>

\* analyze_mood(color_data, complexity_data)
AnalyzeMood ==
    /\ pc = "idle"
    /\ call = NoCall
    /\ \E color_data \in ColorDatas, complexity_data \in ComplexityDatas :
         /\ call' = [op |-> "analyze_mood", color_data |-> color_data,
                     complexity_data |-> complexity_data]
         /\ ret' = analyze_mood(color_data, complexity_data)
    /\ UNCHANGED <<patterns, pc, analyses, sorted_slots, slot_idx, assignments, used_images>>

MoodNext ==
    \/ DeterminePrimaryMood
    \/ DetermineEmotionalTone
    \/ AnalyzeMood

-----------------------------------------------------------------------------
(* ImageComplexityAnalyzer and AdvancedImageClassifier as a state machine *)

\* gray_image.shape of the arrays read
ArrayShapes == {<<3, 4>>, <<1, 7>>}

\* the measurements taken on a loaded array: the edge pixels Canny marks, the
\* variance of the Laplacian (unless it raised), the unique colours of the
\* 100 x 100 thumbnail and the standard deviation of the gray levels
Measurements ==
    {[rows |-> shape[1], cols |-> shape[2], edge_pixels |-> edge_pixels,
      laplacian_raised |-> texture[1], variance |-> texture[2],
      unique_colors |-> unique_colors, std |-> std] :
        shape \in ArrayShapes, edge_pixels \in {0, 1, 5, 7, 12},
        texture \in {<<TRUE, 0>>, <<FALSE, 0>>, <<FALSE, 2500>>, <<FALSE, 20000>>},
        unique_colors \in {100, 4000, 10000}, std \in {0, 64, 200}}

\* what cv2.imread gives: an array that was measured, or None
LoadedArrays == {None} \cup {cv \in Measurements : cv.edge_pixels <= cv.rows * cv.cols}

\* img.size and img.format of the files Image.open accepts
OpenedImages ==
    {[size |-> <<4, 3>>, format |-> "PNG"], [size |-> <<1920, 1080>>, format |-> "JPEG"],
     [size |-> <<3, 16>>, format |-> "PNG"]}

\* profiles analyze_colors computes
ComputedColors ==
    {[dominant_color |-> "#ff8000", palette |-> <<"#ff8000", "#804000">>,
      temperature |-> "warm", harmony_type |-> "monochromatic", color_diversity |-> 324,
      brightness |-> 594, saturation |-> 1000],
     [dominant_color |-> "#c0c0c0", palette |-> <<"#c0c0c0">>,
      temperature |-> "neutral", harmony_type |-> "monochromatic", color_diversity |-> 0,
      brightness |-> 753, saturation |-> 0]}

\* the arrays classify_image is run on
ClassifiedArrays ==
    {cv \in LoadedArrays : cv = None \/ (cv.rows = 1 /\ cv.unique_colors = 4000)}

\* what a path names: nothing (None) or a file
ImageFiles ==
    {None} \cup
    {[pil |-> pil, colors |-> colors, cv |-> cv] :
        pil \in {None} \cup OpenedImages, colors \in {None} \cup ComputedColors,
        cv \in ClassifiedArrays}

Timestamps == {"2024-01-01T00:00:00", "2024-01-01T00:00:01"}

\* analyze_complexity(image_path)
AnalyzeComplexity ==
    /\ pc = "idle"
    /\ call = NoCall
    /\ \E cv \in LoadedArrays :
         /\ call' = [op |-> "analyze_complexity", cv |-> cv]
         /\ ret' = analyze_complexity(cv)
    /\ UNCHANGED <<patterns, pc, analyses, sorted_slots, slot_idx, assignments, used_images>>

\* classify_image(image_path)
ClassifyImage ==
    /\ pc = "idle"
    /\ call = NoCall
    /\ \E image_path \in Filenames, file \in ImageFiles, now \in Timestamps :
         /\ call' = [op |-> "classify_image", image_path |-> image_path, file |-> file,
                     now |-> now]
         /\ ret' = classify_image(image_path, file, now)
    /\ UNCHANGED <<patterns, pc, analyses, sorted_slots, slot_idx, assignments, used_images>>

ClassifierNext ==
    \/ AnalyzeComplexity
    \/ ClassifyImage

-----------------------------------------------------------------------------
(* CollectionAnalyzer as a state machine *)

MaxFiles == 2

\* <<dominant_color, palette>> of a metadata record; NoColors has neither key
NoColors == <<>>

\* the temperature, brightness, saturation, harmony_type, primary_mood,
\* emotional_tone, energy_level and overall_complexity of the records
ProfileChoices ==
    [energetic |-> <<"warm", 90, 85, "complementary", "energetic", "uplifting", "high", 70>>,
     dramatic |-> <<"cool", 20, 50, "analogous", "dramatic", "contemplative", "medium", 80>>,
     mysterious |-> <<"neutral", 75, 50, "monochromatic", "mysterious", "neutral", "high", 50>>,
     balanced |-> <<"warm", 50, 40, "monochromatic", "balanced", "neutral", "medium", 30>>,
     vibrant |-> <<"neutral", 75, 50, "triadic", "vibrant", "neutral", "medium", 50>>]

\* the <<dominant_color, palette>> of the records
ColorChoices ==
    [magenta |-> <<<<"#", "F", "0", "1", "0", "F", "0">>, <<<<"#", "f", "f", "0", "0", "f", "f">>>>>>,
     saddle |-> <<<<"#", "8", "b", "4", "5", "1", "3">>, <<<<"#", "8", "b", "4", "5", "1", "3">>, <<"#", "4", "0", "c", "0", "4", "0">>>>>>,
     black |-> <<<<"#", "0", "0", "0", "0", "0", "0">>, <<<<"#", "C", "0", "C", "0", "C", "0">>>>>>,
     green |-> <<<<"#", "4", "0", "c", "0", "4", "0">>, <<>>>>,
     spectrum |-> <<<<"#", "4", "0", "c", "0", "4", "0">>,
                    <<<<"#", "4", "0", "c", "0", "8", "0">>, <<"#", "4", "0", "a", "0", "6", "0">>, <<"#", "6", "0", "a", "0", "4", "0">>,
                      <<"#", "6", "0", "c", "0", "8", "0">>, <<"#", "5", "0", "b", "0", "5", "0">>, <<"#", "7", "0", "a", "0", "7", "0">>,
                      <<"#", "5", "0", "a", "0", "9", "0">>, <<"#", "3", "0", "b", "0", "7", "0">>, <<"#", "6", "0", "b", "0", "6", "0">>>>>>]

\* the <<colours, profile>> of the metadata records
MetadataChoices ==
    {<<ColorChoices.magenta, ProfileChoices.energetic>>,
     <<ColorChoices.magenta, ProfileChoices.dramatic>>,
     <<ColorChoices.saddle, ProfileChoices.energetic>>,
     <<ColorChoices.saddle, ProfileChoices.balanced>>,
     <<ColorChoices.black, ProfileChoices.dramatic>>,
     <<ColorChoices.black, ProfileChoices.vibrant>>,
     <<ColorChoices.green, ProfileChoices.mysterious>>,
     <<ColorChoices.green, ProfileChoices.balanced>>,
     <<ColorChoices.spectrum, ProfileChoices.mysterious>>,
     <<NoColors, ProfileChoices.mysterious>>,
     <<NoColors, ProfileChoices.vibrant>>}

\* the metadata record of one image, as classify_image writes it
ThemeMetadata(colors, profile) ==
    ("color_analysis" :>
        ((IF colors = NoColors THEN EmptyDict
          ELSE ("dominant_color" :> colors[1]) @@ ("palette" :> colors[2]))
         @@ ("temperature" :> profile[1]) @@ ("brightness" :> profile[2])
         @@ ("saturation" :> profile[3]) @@ ("harmony_type" :> profile[4])))
    @@ ("mood_analysis" :>
        (("primary_mood" :> profile[5]) @@ ("emotional_tone" :> profile[6])
         @@ ("energy_level" :> profile[7])))
    @@ ("complexity_analysis" :> ("overall_complexity" :> profile[8]))

\* a record whose "color_analysis" is null
NullColorAnalysis == "color_analysis" :> None

ThemeMetadatas ==
    {EmptyDict, NullColorAnalysis} \cup
    {ThemeMetadata(choice[1], choice[2]) : choice \in MetadataChoices}

MetadataFileContents ==
    {InvalidFile, ArrayFile} \cup {ObjectFile(object) : object \in ThemeMetadatas}

\* the *.json files of a directory in glob order, or a path that does not exist
MetadataDirectories ==
    {[exists |-> FALSE, files |-> <<>>]} \cup
    {[exists |-> TRUE, files |-> files] :
        files \in UNION {[1..n -> MetadataFileContents] : n \in 0..MaxFiles}}

\* records of magenta images with a palette near magenta and cyan, saturation
\* 0.85, mood vibrant and energy high, of several temperatures, brightnesses
\* and complexities
MagentaMetadatas ==
    {ThemeMetadata(<<<<"#", "f", "f", "0", "0", "f", "f">>, <<<<"#", "0", "0", "f", "0", "f", "0">>, <<"#", "f", "0", "2", "0", "a", "0">>>>>>,
                   <<profile[1], profile[2], 85, "triadic", "vibrant", "uplifting", "high",
                     profile[3]>>) :
        profile \in {<<"warm", 90, 70>>, <<"cool", 20, 80>>, <<"neutral", 50, 30>>,
                     <<"cool", 90, 80>>}}

\* directories that hold such records only
MagentaDirectories ==
    {[exists |-> TRUE, files |-> files] :
        files \in UNION {[1..n -> {ObjectFile(object) : object \in MagentaMetadatas}] :
                            n \in 1..MaxFiles}}

\* the methods of CollectionAnalyzer a call of analyze_collection_theme invokes,
\* in the order of their first invocation
InvokedBy(metadata_directory) ==
    LET loaded == _load_metadata_files(metadata_directory)
    IN  IF loaded = <<>>
        THEN <<"_load_metadata_files", "_get_fallback_theme">>
        ELSE IF AggregationRaises(loaded)
        THEN <<"_load_metadata_files", "_aggregate_color_data", "_get_fallback_theme">>
        ELSE <<"_load_metadata_files", "_aggregate_color_data", "_aggregate_mood_data",
               "_aggregate_complexity_data", "_generate_theme_profile",
               "_detect_theme_pattern", "_calculate_cyberfemme_score",
               "_calculate_organic_score", "_calculate_tech_score",
               "_calculate_vintage_score", "_generate_color_palettes">>

\* analyze_collection_theme(metadata_directory)
AnalyzeCollectionTheme ==
    /\ pc = "idle"
    /\ call = NoCall
    /\ \E metadata_directory \in MetadataDirectories \cup MagentaDirectories :
         /\ call' = [op |-> "analyze_collection_theme",
                     metadata_directory |-> metadata_directory]
         /\ ret' = analyze_collection_theme(metadata_directory)
         /\ invoked' = InvokedBy(metadata_directory)
    /\ UNCHANGED <<patterns, pc, analyses, sorted_slots, slot_idx, assignments, used_images>>

\* records as _aggregate_complexity_data reads them: without a
\* complexity_analysis, with one that has no overall_complexity, and with an
\* overall_complexity of 0, 0.3, 0.7 or 1
ComplexityRecords ==
    {EmptyDict, "complexity_analysis" :> EmptyDict} \cup
    {"complexity_analysis" :> ("overall_complexity" :> c) : c \in {0, 30, 70, 100}}

ComplexityLists == UNION {[1..n -> ComplexityRecords] : n \in 0..MaxFiles}

\* _aggregate_complexity_data(metadata_files)
AggregateComplexityData ==
    /\ pc = "idle"
    /\ call = NoCall
    /\ \E metadata_files \in ComplexityLists :
         /\ call' = [op |-> "_aggregate_complexity_data", metadata_files |-> metadata_files]
         /\ ret' = _aggregate_complexity_data(metadata_files)
    /\ UNCHANGED <<patterns, pc, analyses, sorted_slots, slot_idx, assignments, used_images,
                   invoked>>

ThemeNext ==
    \/ AnalyzeCollectionTheme
    \/ AggregateComplexityData

Next ==
    \/ BentoNext /\ UNCHANGED <<theme_vars, cache_vars, history_vars, color_vars>>
    \/ MoodNext /\ UNCHANGED <<theme_vars, cache_vars, history_vars, color_vars>>
    \/ ClassifierNext /\ UNCHANGED <<theme_vars, cache_vars, history_vars, color_vars>>
    \/ ThemeNext /\ UNCHANGED <<cache_vars, history_vars, color_vars>>
    \/ ResultConsumed /\ UNCHANGED <<cache_vars, history_vars, color_vars>>

Spec == Init /\ [][Next]_vars

-----------------------------------------------------------------------------
(* ContentThemeCache as a state machine: the instances of several          *)
(* processes on one cache file                                             *)

CollectionHashes == {"h1", "h2"}

\* the themes handed to set_theme
CachedThemes ==
    {_get_fallback_theme,
     ThemeProfile("cyberfemme", Float(85), <<<<"#", "f", "f", "0", "0", "f", "f">>>>,
                  <<<<"#", "0", "0", "f", "f", "f", "f">>>>, "cool",
                  [mood \in {"vibrant"} |-> Frac(3, 5)], "high", Frac(70, 1), <<"triadic">>)}

WriteOutcomes == {"written", "refused", "emptied", "truncated"}

CacheIdle == pc = "idle" /\ call = NoCall

\* ContentThemeCache(cache_file): a process creates (or re-creates) its instance
Construct ==
    /\ CacheIdle
    /\ \E instance \in Instances, readable \in BOOLEAN :
         LET cache == ContentThemeCache(cache_file, readable)
         IN  /\ call' = [op |-> "__init__", instance |-> instance, readable |-> readable]
             /\ caches' = [caches EXCEPT ![instance] = cache]
             /\ latest' = [latest EXCEPT ![instance] = cache]
    /\ ret' = None
    /\ UNCHANGED <<bento_vars_but_call, theme_vars, cache_file>>

\* get_theme(collection_hash)
GetTheme ==
    /\ CacheIdle
    /\ \E instance \in Instances, collection_hash \in CollectionHashes :
         /\ caches[instance] # None
         /\ call' = [op |-> "get_theme", instance |-> instance,
                     collection_hash |-> collection_hash]
         /\ ret' = get_theme(caches[instance], collection_hash)
    /\ UNCHANGED <<bento_vars_but_call, theme_vars, cache_vars>>

\* set_theme(collection_hash, theme)
SetTheme ==
    /\ CacheIdle
    /\ \E instance \in Instances, collection_hash \in CollectionHashes,
          theme \in CachedThemes, outcome \in WriteOutcomes :
         LET cache == set_theme(caches[instance], collection_hash, theme)
         IN  /\ caches[instance] # None
             /\ call' = [op |-> "set_theme", instance |-> instance,
                         collection_hash |-> collection_hash, theme |-> theme,
                         outcome |-> outcome]
             /\ caches' = [caches EXCEPT ![instance] = cache]
             /\ cache_file' = save_cache(cache, cache_file, outcome)
             /\ latest' = [latest EXCEPT
                             ![instance] = (collection_hash :> theme) @@ latest[instance]]
    /\ ret' = None
    /\ UNCHANGED <<bento_vars_but_call, theme_vars>>

CacheNext ==
    \/ Construct /\ UNCHANGED <<history_vars, color_vars>>
    \/ GetTheme /\ UNCHANGED <<history_vars, color_vars>>
    \/ SetTheme /\ UNCHANGED <<history_vars, color_vars>>
    \/ ResultConsumed /\ UNCHANGED <<cache_vars, history_vars, color_vars>>

CacheSpec == Init /\ [][CacheNext]_vars

\* the instances on a file system without faults: every construction can read
\* the cache file and every save writes it whole
SharedFileNext ==
    \/ Construct /\ call'.readable /\ UNCHANGED <<history_vars, color_vars>>
    \/ GetTheme /\ UNCHANGED <<history_vars, color_vars>>
    \/ SetTheme /\ call'.outcome = "written" /\ UNCHANGED <<history_vars, color_vars>>
    \/ ResultConsumed /\ UNCHANGED <<cache_vars, history_vars, color_vars>>

SharedFileSpec == Init /\ [][SharedFileNext]_vars

-----------------------------------------------------------------------------
(* ColorAnalyzer.analyze_colors as a state machine, with the temporary      *)
(* files of its preprocessing step                                         *)

MaxTempFiles == 2

\* file sizes in bytes, around 1 MB = 1024 * 1024 bytes
FileSizes == {500000, 1024 * 1024 - 1, 1024 * 1024, 3000000}

ImageWidths == {1, 600, 800, 801, 1000, 1100, 1601, 1920, 4000}

ImageHeights == {2, 600, 601, 900, 1080, 1500, 3000}

\* what image_path names: nothing (None), or a file of some size that PIL
\* cannot open (pil = None) or opens as an image of some width and height
ColorFiles ==
    {None} \cup
    {[size |-> size, pil |-> pil] :
        size \in FileSizes,
        pil \in {None} \cup {[size |-> <<w, h>>] : w \in ImageWidths, h \in ImageHeights}}

ResizeOutcomes == {"saved", "resize_raised", "save_raised"}

\* the name mkstemp picks: one that no existing file has
FreshTempPath == TempPath(CHOOSE n \in 0..Cardinality(temp_files) : TempPath(n) \notin temp_files)

ColorLocalsIdle ==
    /\ processed_image_path' = NoPath
    /\ resized_img' = NoSize

\* analyze_colors(image_path), up to the call of ColorThief
AnalyzeColors ==
    /\ pc = "idle"
    /\ call = NoCall
    /\ Cardinality(temp_files) < MaxTempFiles
    /\ \E file \in ColorFiles, outcome \in ResizeOutcomes :
         LET image_path == ImagePath("a.jpg")
         IN  \E processed \in _preprocess_image_for_analysis(image_path, file, outcome,
                                                              FreshTempPath) :
                /\ call' = [op |-> "analyze_colors", image_path |-> image_path,
                            file |-> file, outcome |-> outcome]
                /\ IF Raised(processed)
                   THEN /\ ret' = _get_fallback_colors
                        /\ UNCHANGED <<pc, color_vars>>
                   ELSE /\ ret' = None
                        /\ pc' = "extract"
                        /\ processed_image_path' = processed.path
                        /\ resized_img' = processed.size
                        /\ temp_files' = temp_files \cup processed.created
    /\ UNCHANGED <<patterns, analyses, sorted_slots, slot_idx, assignments, used_images>>

\* ExtractColors deleting the temporary file also when the extraction raised
ExtractColorsWithFinally ==
    /\ pc = "extract"
    /\ \E colors \in {None} \cup ComputedColors :
         /\ call.file.pil = None => colors = None
         /\ ret' = analyze_colors(colors)
         /\ temp_files' = IF processed_image_path # call.image_path
                           THEN temp_files \ {processed_image_path}
                           ELSE temp_files
    /\ pc' = "idle"
    /\ ColorLocalsIdle
    /\ UNCHANGED <<patterns, call, analyses, sorted_slots, slot_idx, assignments,
                   used_images>>

\* the rest of analyze_colors: ColorThief(processed_image_path), get_color and
\* get_palette, which raise (colors = None) or give the colours; the unlink of
\* the temporary file follows them inside the try block; the except branch
\* returns the fallback profile
ExtractColors ==
    /\ pc = "extract"
    /\ \E colors \in {None} \cup ComputedColors :
         /\ call.file.pil = None => colors = None
         /\ ret' = analyze_colors(colors)
         /\ temp_files' = IF colors # None /\ processed_image_path # call.image_path
                           THEN temp_files \ {processed_image_path}
                           ELSE temp_files
    /\ pc' = "idle"
    /\ ColorLocalsIdle
    /\ UNCHANGED <<patterns, call, analyses, sorted_slots, slot_idx, assignments,
                   used_images>>

ColorNext ==
    \/ AnalyzeColors /\ UNCHANGED <<theme_vars, cache_vars, history_vars>>
    \/ ExtractColors /\ UNCHANGED <<theme_vars, cache_vars, history_vars>>
    \/ ResultConsumed /\ UNCHANGED <<cache_vars, history_vars, color_vars>>

ColorSpec == Init /\ [][ColorNext]_vars

-----------------------------------------------------------------------------
(* Properties of the layout optimizer *)


IsLayout(r) == "assignments" \in DOMAIN r

IsError(r) == "error" \in DOMAIN r

DistinctFilenames(asg) ==
    \A k1, k2 \in DOMAIN asg : k1 # k2 => asg[k1].filename # asg[k2].filename

OptimizeReturned == pc = "idle" /\ call.op = "optimize_layout"

\* C1: in a call of optimize_layout no filename is assigned to two slots; every
\* step of the slot loop assigns only a filename that was not in used_images
\* before the step, also when several input records share a filename.
C1_NoFilenameTwice ==
    [][ /\ \A k \in DOMAIN assignments' \ DOMAIN assignments :
              assignments'[k].filename \notin used_images
        /\ DistinctFilenames(assignments')
        /\ IsLayout(ret') => DistinctFilenames(ret'.assignments) ]_vars

\* a call has returned a layout for two records sharing one filename, and only
\* one of them was assigned
C1_Witness ==
    /\ OptimizeReturned
    /\ IsLayout(ret)
    /\ Len(call.image_metadatas) = 2
    /\ call.image_metadatas[1].filename = call.image_metadatas[2].filename
    /\ call.image_metadatas[1] # call.image_metadatas[2]
    /\ ret.filled_slots = 1

\* C2: with a pattern name outside the catalogue optimize_layout returns the
\* error result, which names the pattern and has no assignments, whatever the
\* image list; with a catalogue name it runs the slot loop and returns a layout,
\* never the error result, also for the empty list.
C2_UnknownPatternIsError ==
    /\ OptimizeReturned /\ call.pattern_name \notin CatalogueNames
         => /\ DOMAIN ret = {"error"}
            /\ ret.error.pattern = call.pattern_name
    /\ OptimizeReturned /\ call.pattern_name \in CatalogueNames
         => /\ ~IsError(ret)
            /\ IsLayout(ret)
            /\ ret.pattern = call.pattern_name
    /\ pc = "slots" => call.pattern_name \in CatalogueNames

\* the error result for an unknown pattern and a non-empty image list
C2_Witness ==
    /\ OptimizeReturned
    /\ call.pattern_name = "no_such_pattern"
    /\ call.image_metadatas # <<>>
    /\ IsError(ret)

\* the category and crop tolerance the ratio bands give to width/height
BandCategory(w, h) ==
    CASE 10 * w < 6 * h                        -> VERTICAL
      [] 6 * h <= 10 * w /\ 10 * w < 9 * h     -> PORTRAIT
      [] 9 * h <= 10 * w /\ 10 * w <= 11 * h   -> SQUARE
      [] 11 * h < 10 * w /\ 10 * w <= 18 * h   -> LANDSCAPE
      [] 10 * w > 18 * h                       -> PANORAMIC

BandTolerance(cat) ==
    CASE cat = VERTICAL  -> 30
      [] cat = PORTRAIT  -> 50
      [] cat = SQUARE    -> 80
      [] cat = LANDSCAPE -> 60
      [] cat = PANORAMIC -> 40

ScenarioShapes ==
    { <<1, 2, VERTICAL, 30>>, <<19, 20, SQUARE, 80>>, <<8, 5, LANDSCAPE, 60>>,
      <<5, 2, PANORAMIC, 40>>, <<1, 1, SQUARE, 80>> }

\* C3: analyze_image gives every width/height with height > 0 the category of
\* the band its ratio lies in (vertical < 0.6 <= portrait < 0.9 <= square <= 1.1
\* < landscape <= 1.8 < panoramic) and that category's crop tolerance; ratios
\* 0.5, 0.95, 1.6, 2.5, 1.0 give vertical, square, landscape, panoramic, square.
C3_AspectBands ==
    call.op = "analyze_image" /\ call.metadata.height > 0
      => /\ ret.category = BandCategory(call.metadata.width, call.metadata.height)
         /\ ret.crop_tolerance = BandTolerance(ret.category)
         /\ ret.aspect_num * call.metadata.height = call.metadata.width * ret.aspect_den
         /\ \A s \in ScenarioShapes :
              call.metadata.width = s[1] /\ call.metadata.height = s[2]
                => ret.category = s[3] /\ ret.crop_tolerance = s[4]

\* a ratio of exactly 1.1 has been analysed as square
C3_Witness ==
    /\ call.op = "analyze_image"
    /\ call.metadata.width = 11 /\ call.metadata.height = 10
    /\ ret.category = SQUARE
    /\ ret.crop_tolerance = 80

CollectionReturned == call.op = "analyze_collection" /\ call.image_metadatas # <<>>

\* number of records of the call's list that analyze_image puts in one of cats
CountIn(cats) ==
    Cardinality({i \in 1..Len(call.image_metadatas) :
                    analyze_image(call.image_metadatas[i]).category \in cats})

Recommended == Range(ret.recommended_patterns)

\* the categories whose share triggers a pattern
Triggering(name) ==
    CASE name = "portrait_showcase" -> {PORTRAIT}
      [] name = "landscape_gallery" -> {LANDSCAPE, PANORAMIC}
      [] name = "grid_harmony"      -> {SQUARE}
      [] OTHER                      -> {}

\* C4: for a non-empty collection the recommendations contain balanced_mix
\* unless a recommended pattern other than balanced_mix has triggering
\* categories that hold every image of the collection.
C4_BalancedMixUnlessFullCover ==
    CollectionReturned
      => \/ "balanced_mix" \in Recommended
         \/ \E name \in Recommended \ {"balanced_mix"} :
               CountIn(Triggering(name)) = Len(call.image_metadatas)

\* C5: for a non-empty collection the recommendations are non-empty, at most
\* 3, all catalogue names, and hold portrait_showcase iff the portrait share is
\* > 50%, landscape_gallery iff the landscape plus panoramic share is > 50%,
\* grid_harmony iff the square share is > 60%.
C5_RecommendationThresholds ==
    CollectionReturned
      => LET n == Len(call.image_metadatas) IN
         /\ ret.recommended_patterns # <<>>
         /\ Len(ret.recommended_patterns) <= 3
         /\ Recommended \subseteq CatalogueNames
         /\ "portrait_showcase" \in Recommended <=> 2 * CountIn({PORTRAIT}) > n
         /\ "landscape_gallery" \in Recommended <=> 2 * CountIn({LANDSCAPE, PANORAMIC}) > n
         /\ "grid_harmony" \in Recommended <=> 10 * CountIn({SQUARE}) > 6 * n

\* a collection of which exactly half is portrait: no portrait_showcase
C5_Witness ==
    /\ CollectionReturned
    /\ Len(call.image_metadatas) = 2
    /\ CountIn({PORTRAIT}) = 1
    /\ ret.recommended_patterns = <<"balanced_mix">>

\* the score of C6 for an image and a slot, in thousandths, times aspect_den;
\* clamp says whether the aspect term is max(0, 1 - |difference|)
StatedScoreNum(image, slot, clamp) ==
    LET diff   == Abs(100 * image.aspect_num - slot.aspect_ratio * image.aspect_den)
        aspect == 100 * image.aspect_den - diff
    IN  5 * (IF clamp /\ aspect < 0 THEN 0 ELSE aspect)
        + (IF image.category \in slot.preferred_categories THEN 300 ELSE 0) * image.aspect_den
        + 2 * image.crop_tolerance * image.aspect_den

StatedScoreAtLeast(a, b, slot, clamp) ==
    StatedScoreNum(a, slot, clamp) * b.aspect_den
      >= StatedScoreNum(b, slot, clamp) * a.aspect_den

AtSlot == pc = "slots" /\ slot_idx <= Len(sorted_slots)

\* the image the next step of the loop assigns attains the maximum of the
\* stated score over the images whose filename is not yet used
PicksStatedMaximum(clamp) ==
    AtSlot =>
      LET slot == sorted_slots[slot_idx]
          best == _find_best_image_for_slot(slot, analyses, used_images)
      IN  best # None =>
            /\ best.filename \notin used_images
            /\ \E i \in 1..Len(analyses) : analyses[i] = best
            /\ \A i \in 1..Len(analyses) :
                  analyses[i].filename \notin used_images
                    => StatedScoreAtLeast(best, analyses[i], slot, clamp)

\* C6 as stated: the assigned image maximises
\* 0.5*(1 - |ratio - slot ratio|) + 0.3*[category preferred] + 0.2*crop_tolerance
\* over the unused images.
C6_PicksUnclampedMaximum == PicksStatedMaximum(FALSE)

\* C6 amended: the assigned image maximises
\* 0.5*max(0, 1 - |ratio - slot ratio|) + 0.3*[category preferred] + 0.2*crop_tolerance
\* over the unused images, for images of every aspect ratio.
C6_PicksClampedMaximum == PicksStatedMaximum(TRUE)

\* a slot is about to choose between two unused images, one of them more than
\* 1 away from the slot's ratio
C6_Witness ==
    /\ AtSlot
    /\ Len(analyses) = 2
    /\ analyses[1].filename # analyses[2].filename
    /\ used_images = {}
    /\ \E i \in 1..2 :
          AspectDiffNum(analyses[i], sorted_slots[slot_idx]) > 100 * analyses[i].aspect_den

-----------------------------------------------------------------------------
(* Properties of the mood analyzer *)

Moods == {"energetic", "serene", "dramatic", "mysterious", "vibrant", "cinematic",
          "dynamic", "peaceful", "balanced"}

\* the decision table of C7, in its order
MoodRules(b, s, t, c) ==
    << [when |-> b > 700 /\ s > 500, mood |-> IF t = "warm" THEN "energetic" ELSE "serene"],
       [when |-> b < 300,            mood |-> IF c > 600 THEN "dramatic" ELSE "mysterious"],
       [when |-> s > 700,            mood |-> IF t = "warm" THEN "vibrant" ELSE "cinematic"],
       [when |-> c > 700,            mood |-> "dynamic"],
       [when |-> b > 500 /\ s < 300, mood |-> "peaceful"],
       [when |-> TRUE,               mood |-> "balanced"] >>

FirstMatchingMood(b, s, t, c) ==
    LET rules == MoodRules(b, s, t, c)
        first == CHOOSE i \in 1..Len(rules) :
                    rules[i].when /\ \A j \in 1..(i - 1) : ~rules[j].when
    IN  rules[first].mood

\* C7: _determine_primary_mood returns the mood of the first matching rule of
\* the six rules in their fixed order, always one of the nine moods, and
\* (brightness 0, saturation 0, warm, complexity 0.5) gives mysterious.
C7_FirstMatchingRule ==
    call.op = "_determine_primary_mood"
      => /\ ret.value = FirstMatchingMood(call.brightness, call.saturation,
                                          call.temperature, call.complexity)
         /\ ret.value \in Moods
         /\ call.brightness = 0 /\ call.saturation = 0 /\ call.temperature = "warm"
              /\ call.complexity = 500 => ret.value = "mysterious"

\* dark and saturated: rule 2 wins over rule 3
C7_Witness ==
    /\ call.op = "_determine_primary_mood"
    /\ call.brightness = 200 /\ call.saturation = 800 /\ call.complexity = 800
    /\ ret.value = "dramatic"

MoodReturned == call.op = "analyze_mood"

MoodComputed == MoodReturned /\ call.color_data # None /\ call.complexity_data # None

\* sum of the three |x - 0.5| * 2 of the call, in thousandths, missing keys at 0.5
DistanceSum ==
    2 * Abs(Get(call.color_data, "brightness", 500) - 500)
    + 2 * Abs(Get(call.color_data, "saturation", 500) - 500)
    + 2 * Abs(Get(call.complexity_data, "overall_complexity", 500) - 500)

\* three times the mean DistanceSum/3, clamped to [0.3, 0.95], in thousandths
ClampedSum == IF DistanceSum < 900 THEN 900 ELSE IF DistanceSum > 2850 THEN 2850 ELSE DistanceSum

ConfidenceInRange == MoodReturned => ret.confidence >= 300 /\ ret.confidence <= 950

\* C8 as stated: the confidence of every profile analyze_mood returns is in
\* [0.3, 0.95], and that of a computed profile equals the mean of |x - 0.5| * 2
\* over brightness, saturation and complexity clamped to that interval.
C8_ConfidenceIsClampedMean ==
    /\ ConfidenceInRange
    /\ MoodComputed => 3 * ret.confidence = ClampedSum

\* C8 amended: the confidence of every profile analyze_mood returns is in
\* [0.3, 0.95]; that of a computed profile is the clamped mean rounded to three
\* decimals (within 0.0005 of it), and the fallback profile has 0.5.
C8_ConfidenceIsRoundedClampedMean ==
    /\ ConfidenceInRange
    /\ MoodComputed => /\ 2 * Abs(3 * ret.confidence - ClampedSum) <= 3
                       /\ ret.confidence \in 300..950
    /\ MoodReturned /\ ~MoodComputed => ret.confidence = 500

\* brightness 0, saturation 0, complexity 0.1: mean 0.9333..., returned 0.933
C8_Witness ==
    /\ MoodComputed
    /\ DistanceSum = 2800
    /\ ret.confidence = 933

-----------------------------------------------------------------------------
(* Properties of the collection theme analyzer *)

NamedThemes == {"cyberfemme", "organic", "tech", "vintage"}

FloatLeq(a, b) == ~FloatLess(b, a)

ThemeReturned == call.op = "analyze_collection_theme"

\* the call reached _detect_theme_pattern, so the four scorers ran
ThemeScored ==
    /\ ThemeReturned
    /\ \E i \in 1..Len(invoked) : invoked[i] = "_detect_theme_pattern"

\* the four scores of the call
ScoresOfCall ==
    LET loaded == _load_metadata_files(call.metadata_directory)
        metadata_files == [i \in 1..Len(loaded) |-> loaded[i].object]
    IN  ThemeScores(_aggregate_color_data(metadata_files),
                    _aggregate_mood_data(metadata_files),
                    _aggregate_complexity_data(metadata_files))

\* C9: every ThemeProfile returned by analyze_collection_theme has theme_name
\* in {cyberfemme, organic, tech, vintage, adaptive}, confidence in [0.3, 0.95]
\* for the four named themes and confidence exactly 0.5 for adaptive.
C9_ThemeNameAndConfidence ==
    ThemeReturned =>
        /\ ret.theme_name \in NamedThemes \cup {"adaptive"}
        /\ ret.theme_name \in NamedThemes =>
              FloatLeq(Float(30), ret.confidence) /\ FloatLeq(ret.confidence, Float(95))
        /\ ret.theme_name = "adaptive" => ret.confidence = Float(50)

\* a named theme wins with the winning score above 0.95 and its confidence 0.95
C9_Witness ==
    /\ ThemeScored
    /\ ret.theme_name \in NamedThemes
    /\ FloatLess(Float(95), MaxScore(ScoresOfCall))
    /\ ret.confidence = Float(95)

\* the increments of each scorer, in the order the scorer adds them
Increments ==
    [cyberfemme |-> <<40, 20, 30, 10>>,
     organic |-> <<40, 20, 30, 10>>,
     tech |-> <<40, 20, 20, 10, 10>>,
     vintage |-> <<40, 30, 20, 10>>]

RECURSIVE Accumulate(_, _, _)
Accumulate(increments, chosen, score) ==
    IF increments = <<>> THEN score
    ELSE Accumulate(Tail(increments), Tail(chosen),
                    IF Head(chosen) THEN FloatAdd(score, Float(Head(increments)))
                    ELSE score)

\* the float sums of the sub-collections of a scorer's increments
IncrementSums ==
    [theme \in NamedThemes |->
        {Accumulate(Increments[theme], chosen, Float(0)) :
            chosen \in [1..Len(Increments[theme]) -> BOOLEAN]}]

\* adaptive with 0.5 exactly for a maximal score below 0.3, otherwise a theme of
\* the maximal score with confidence min(score, 0.95)
SelectsByMaximum ==
    LET theme_scores == ScoresOfCall
        maximum == MaxScore(theme_scores)
    IN  /\ (ret.theme_name = "adaptive" /\ ret.confidence = Float(50))
              <=> FloatLess(maximum, Float(30))
        /\ ~FloatLess(maximum, Float(30)) =>
              /\ ret.theme_name \in NamedThemes
              /\ theme_scores[ret.theme_name] = maximum
              /\ ret.confidence = FloatMin(maximum, Float(95))

\* each score is a sum of its scorer's increments between 0 and upper
ScoresAreSumsUpTo(upper) ==
    LET theme_scores == ScoresOfCall
    IN  \A theme \in NamedThemes :
            /\ theme_scores[theme] \in IncrementSums[theme]
            /\ FloatLeq(Float(0), theme_scores[theme])
            /\ FloatLeq(theme_scores[theme], upper)

\* C10 as stated: _detect_theme_pattern returns ("adaptive", 0.5) exactly when
\* the maximum of the four scores is below 0.3, otherwise a theme whose score is
\* that maximum with confidence min(score, 0.95); each score is a sum of the
\* fixed increments and lies in [0, 1].
C10_SelectionAndUnitScores ==
    ThemeScored => SelectsByMaximum /\ ScoresAreSumsUpTo(Float(100))

\* the double next above 1.0, 1.0000000000000002
NextAboveOne == [h |-> 100, e |-> Ulp(100, 0)]

\* C10 amended: the selection as stated; each score is the float sum of the
\* fixed increments and lies in [0, 1.0000000000000002], 1.0 within floating
\* rounding.
C10_SelectionAndRoundedScores ==
    ThemeScored => SelectsByMaximum /\ ScoresAreSumsUpTo(NextAboveOne)

\* the cyberfemme scorer added all four of its increments: the score is
\* 1.0000000000000002 and the theme wins with confidence 0.95
C10_Witness ==
    /\ ThemeScored
    /\ ScoresOfCall.cyberfemme = NextAboveOne
    /\ ret.theme_name = "cyberfemme"
    /\ ret.confidence = Float(95)

\* the directory of the call is missing or none of its files parses
YieldsNoRecords ==
    \/ ~call.metadata_directory.exists
    \/ \A i \in 1..Len(call.metadata_directory.files) :
          call.metadata_directory.files[i].json = "invalid"

AggregationSteps ==
    {"_aggregate_color_data", "_aggregate_mood_data", "_aggregate_complexity_data"}

ThemeScorers ==
    {"_detect_theme_pattern", "_calculate_cyberfemme_score", "_calculate_organic_score",
     "_calculate_tech_score", "_calculate_vintage_score"}

\* C11: analyze_collection_theme on a directory that does not exist or yields
\* zero metadata records returns the fixed fallback ThemeProfile (adaptive,
\* confidence 0.5, mood_profile {balanced: 1.0}, energy_level medium) and
\* invokes no aggregation step and no theme scorer.
C11_EmptyCollectionFallsBack ==
    (ThemeReturned /\ YieldsNoRecords) =>
        /\ ret.theme_name = "adaptive"
        /\ ret.confidence = Float(50)
        /\ DOMAIN ret.mood_profile = {"balanced"}
        /\ ret.mood_profile["balanced"] = Frac(1, 1)
        /\ ret.energy_level = "medium"
        /\ Range(invoked) \cap (AggregationSteps \cup ThemeScorers) = {}

\* a directory that exists and holds files, all of them unparseable
C11_Witness ==
    /\ ThemeReturned
    /\ call.metadata_directory.exists
    /\ call.metadata_directory.files # <<>>
    /\ YieldsNoRecords
    /\ ret = _get_fallback_theme
    /\ invoked = <<"_load_metadata_files", "_get_fallback_theme">>

\* a file that parses to a JSON object whose "color_analysis", if present, is
\* an object
IsValidRecord(file) ==
    /\ file.json = "object"
    /\ Get(file.object, "color_analysis", EmptyDict) # None

\* the directory with its valid records only
ValidRecordsOnly(metadata_directory) ==
    [exists |-> TRUE, files |-> SelectSeq(metadata_directory.files, IsValidRecord)]

\* the directory of the call holds valid records together with malformed files
MixedDirectory ==
    /\ ThemeReturned
    /\ call.metadata_directory.exists
    /\ \E i \in 1..Len(call.metadata_directory.files) :
          IsValidRecord(call.metadata_directory.files[i])
    /\ \E i \in 1..Len(call.metadata_directory.files) :
          ~IsValidRecord(call.metadata_directory.files[i])

\* C12: for a directory that holds valid records together with malformed files
\* (unparseable JSON, a top-level non-object, a non-object color_analysis),
\* analyze_collection_theme returns the ThemeProfile it returns for the valid
\* records alone.
C12_MalformedFilesAreSkipped ==
    MixedDirectory =>
        ret = analyze_collection_theme(ValidRecordsOnly(call.metadata_directory))

-----------------------------------------------------------------------------
(* Properties of the emotional tone *)

ToneReturned == call.op = "_determine_emotional_tone"

\* the tone the four named rules give, with `bright` and `dark` the sets of
\* temperatures that get calm above 0.6 and intense below 0.4
StatedTone(brightness, temperature, bright, dark) ==
    IF brightness > 600 /\ temperature = "warm" THEN "uplifting"
    ELSE IF brightness > 600 /\ temperature \in bright THEN "calm"
    ELSE IF brightness < 400 /\ temperature = "cool" THEN "contemplative"
    ELSE IF brightness < 400 /\ temperature \in dark THEN "intense"
    ELSE "neutral"

\* C20 as stated: uplifting for bright and warm, calm for bright and cool,
\* contemplative for dark and cool, intense for dark and warm, and neutral in
\* every other case.
C20_ToneByNamedRules ==
    ToneReturned =>
        ret.value = StatedTone(call.brightness, call.temperature, {"cool"}, {"warm"})

\* C20: above 0.6 the tone is uplifting for warm and calm for every other
\* temperature; below 0.4 it is contemplative for cool and intense for every
\* other temperature; from 0.4 to 0.6 it is neutral.
C20_ToneByBrightnessBand ==
    ToneReturned =>
        ret.value = StatedTone(call.brightness, call.temperature,
                               {"cool", "neutral"}, {"warm", "neutral"})

\* a bright image of neutral temperature has been given the tone calm
C20_Witness ==
    /\ ToneReturned
    /\ call.brightness > 600
    /\ call.temperature = "neutral"
    /\ ret.value = "calm"

-----------------------------------------------------------------------------
(* Properties of the image classifier *)

ClassifyReturned == call.op = "classify_image"

Sections ==
    {"basic_info", "color_analysis", "complexity_analysis", "mood_analysis",
     "classification_metadata"}

\* C13: classify_image on a path that names no file raises nothing and
\* returns a record of exactly the five sections whose colour, complexity and
\* mood profiles are the fixed fallback profiles, with confidence_score 0.3,
\* width 1920 and height 1080.
C13_MissingPathGivesFallbackRecord ==
    ClassifyReturned /\ call.file = None =>
        /\ ~Raised(ret)
        /\ DOMAIN ret = Sections
        /\ ret.color_analysis = _get_fallback_colors
        /\ ret.complexity_analysis = _get_fallback_complexity
        /\ ret.mood_analysis = _get_fallback_mood
        /\ ret.classification_metadata.confidence_score = 300
        /\ ret.basic_info.width = 1920
        /\ ret.basic_info.height = 1080

\* a path that names no file has been classified as a 1920 x 1080 image
C13_Witness ==
    /\ ClassifyReturned
    /\ call.file = None
    /\ ret.basic_info.filename = call.image_path
    /\ ret.basic_info.width = 1920
    /\ ret.classification_metadata.confidence_score = 300

ComplexityReturned == call.op = "analyze_complexity"

ComplexityFields ==
    {"edge_density", "texture_complexity", "color_complexity", "contrast",
     "overall_complexity"}

\* ten thousand times 0.3 edge + 0.3 texture + 0.2 colour + 0.2 contrast of a profile
WeightedSum(profile) ==
    3 * profile.edge_density + 3 * profile.texture_complexity
    + 2 * profile.color_complexity + 2 * profile.contrast

\* the five fields are present and in [0, 1], and overall_complexity is within
\* 0.001 (the rounding of the fields and of the sum) of the weighted sum
ComplexityProfileHolds(profile) ==
    /\ DOMAIN profile = ComplexityFields
    /\ \A field \in ComplexityFields : profile[field] \in 0..1000
    /\ Abs(10 * profile.overall_complexity - WeightedSum(profile)) <= 10

\* C14: every profile analyze_complexity returns, computed or fallback, has
\* all five fields in [0, 1] and an overall_complexity equal, up to rounding,
\* to 0.3 edge_density + 0.3 texture_complexity + 0.2 color_complexity
\* + 0.2 contrast of the same profile.
C14_ComplexityFieldsAndWeightedSum ==
    ComplexityReturned => ComplexityProfileHolds(ret)

\* the part of C14 that concerns the profiles computed from a loaded array
ComputedComplexityHolds ==
    ComplexityReturned /\ call.cv # None => ComplexityProfileHolds(ret)

\* the duration (tenths of a second) is the tenth nearest to 8.0 + 4.0 x overall
DurationFollows(duration, overall_complexity) ==
    /\ Abs(100 * duration - (8000 + 4 * overall_complexity)) <= 50
    /\ duration \in 80..120

DurationOf(overall_complexity) ==
    _calculate_display_duration("overall_complexity" :> overall_complexity)

\* C15: in every record classify_image returns, computed or fallback,
\* recommended_display_duration is 8.0 + 4.0 x the overall_complexity of the
\* record's complexity_analysis rounded to one decimal, lies in [8.0, 12.0],
\* and is non-decreasing in overall_complexity.
C15_DurationFollowsComplexity ==
    ClassifyReturned =>
        /\ DurationFollows(ret.classification_metadata.recommended_display_duration,
                           ret.complexity_analysis.overall_complexity)
        /\ \A c \in 0..999 : DurationOf(c) <= DurationOf(c + 1)

\* the part of C15 that concerns the records built by the try block
ComputedDurationFollows ==
    ClassifyReturned /\ ~Raised(ClassifyTry(call.image_path, call.file, call.now)) =>
        /\ DurationFollows(ret.classification_metadata.recommended_display_duration,
                           ret.complexity_analysis.overall_complexity)
        /\ \A c \in 0..999 : DurationOf(c) <= DurationOf(c + 1)

-----------------------------------------------------------------------------
(* Properties of the theme cache *)

Constructed(instance) == caches[instance] # None

GetReturned == call.op = "get_theme"

ProfileFields ==
    {"theme_name", "confidence", "primary_colors", "accent_colors", "temperature_bias",
     "mood_profile", "energy_level", "complexity_preference", "harmony_types"}

\* the profile has the nine fields, each equal to that of theme
EqualInAllFields(profile, theme) ==
    /\ DOMAIN profile = ProfileFields
    /\ \A field \in ProfileFields : profile[field] = theme[field]

\* get_theme answers from the themes last set (or loaded) on its instance
AnswersLatest ==
    GetReturned =>
        LET known == latest[call.instance]
        IN  IF call.collection_hash \in DOMAIN known
            THEN EqualInAllFields(ret, known[call.collection_hash])
            ELSE ret = None

\* every instance holds exactly the keys last set or loaded, each with the
\* nine fields of its theme
HoldsLatest ==
    \A instance \in Instances :
        Constructed(instance) =>
            /\ DOMAIN caches[instance] = DOMAIN latest[instance]
            /\ \A key \in DOMAIN caches[instance] :
                   EqualInAllFields(caches[instance][key], latest[instance][key])

\* a get_theme step changes neither a cache nor the file
GetChangesNothing == call'.op = "get_theme" => UNCHANGED cache_vars

\* C16: on one instance get_theme(k) returns None if k was never set nor
\* loaded and otherwise a profile equal in all nine fields to the theme of
\* the most recent set_theme(k, .); set_theme replaces the entry of k and
\* leaves the other keys' entries as they were; get_theme changes nothing.
C16_CacheIsAMap == [](AnswersLatest /\ HoldsLatest) /\ [][GetChangesNothing]_vars

\* with both keys set on the instance, get_theme has returned the theme set last
C16_Witness ==
    /\ GetReturned
    /\ DOMAIN caches[call.instance] = CollectionHashes
    /\ ret # None
    /\ ret.theme_name = "cyberfemme"
    /\ caches[call.instance]["h1"] # caches[call.instance]["h2"]

\* what an instance constructed now finds under collection_hash
FoundByNewInstance(collection_hash) ==
    get_theme(ContentThemeCache(cache_file, TRUE), collection_hash)

\* a construction raises nothing, starts empty on a missing, empty or
\* unparseable file, and on a readable JSON object holds that object
ConstructionLoads ==
    call.op = "__init__" =>
        /\ ret = None
        /\ Constructed(call.instance)
        /\ cache_file = None \/ cache_file \in {EmptyFile, InvalidFile}
              => caches[call.instance] = EmptyDict
        /\ cache_file # None /\ cache_file.json = "object" /\ call.readable
              => caches[call.instance] = cache_file.object

-----------------------------------------------------------------------------
(* Properties of the palette synthesis *)

\* color_data["dominant_colors"] of the call
DominantColorsOfCall ==
    LET loaded == _load_metadata_files(call.metadata_directory)
        metadata_files == [i \in 1..Len(loaded) |-> loaded[i].object]
    IN  _aggregate_color_data(metadata_files).dominant_colors

\* <<primary_colors, accent_colors>> of each theme for a collection without colours
FallbackPalettes ==
    [cyberfemme |-> <<<<<<"#", "1", "a", "1", "a", "2", "e">>, <<"#", "1", "6", "2", "1", "3", "e">>, <<"#", "0", "f", "3", "4", "6", "0">>>>,
                      <<<<"#", "f", "f", "0", "0", "f", "f">>, <<"#", "0", "0", "f", "f", "f", "f">>, <<"#", "f", "f", "1", "4", "9", "3">>, <<"#", "9", "9", "3", "2", "c", "c">>>>>>,
     organic |-> <<<<<<"#", "2", "e", "4", "a", "3", "d">>, <<"#", "4", "a", "6", "7", "4", "1">>, <<"#", "6", "b", "8", "e", "2", "3">>>>,
                   <<<<"#", "8", "f", "b", "c", "8", "f">>, <<"#", "d", "a", "a", "5", "2", "0">>, <<"#", "c", "d", "8", "5", "3", "f">>>>>>,
     tech |-> <<<<<<"#", "1", "a", "1", "a", "1", "a">>, <<"#", "2", "f", "2", "f", "2", "f">>, <<"#", "4", "0", "4", "0", "4", "0">>>>,
                <<<<"#", "0", "0", "8", "0", "f", "f">>, <<"#", "0", "0", "b", "f", "f", "f">>, <<"#", "f", "f", "f", "f", "f", "f">>>>>>,
     vintage |-> <<<<<<"#", "3", "d", "2", "f", "1", "f">>, <<"#", "5", "d", "4", "0", "3", "7">>, <<"#", "7", "9", "5", "5", "4", "8">>>>,
                   <<<<"#", "d", "a", "a", "5", "2", "0">>, <<"#", "c", "d", "8", "5", "3", "f">>, <<"#", "b", "8", "8", "6", "0", "b">>>>>>,
     adaptive |-> <<<<<<"#", "3", "d", "2", "f", "1", "f">>, <<"#", "5", "d", "4", "0", "3", "7">>, <<"#", "7", "9", "5", "5", "4", "8">>>>,
                    <<<<"#", "d", "a", "a", "5", "2", "0">>, <<"#", "c", "d", "8", "5", "3", "f">>, <<"#", "b", "8", "8", "6", "0", "b">>>>>>]

\* the accent colours of the four named themes for a collection with colours
AccentSets ==
    [cyberfemme |-> <<<<"#", "f", "f", "0", "0", "f", "f">>, <<"#", "0", "0", "f", "f", "f", "f">>, <<"#", "f", "f", "1", "4", "9", "3">>, <<"#", "9", "3", "7", "0", "d", "b">>>>,
     organic |-> <<<<"#", "8", "f", "b", "c", "8", "f">>, <<"#", "d", "a", "a", "5", "2", "0">>, <<"#", "f", "4", "a", "4", "6", "0">>, <<"#", "9", "0", "e", "e", "9", "0">>>>,
     tech |-> <<<<"#", "0", "0", "8", "0", "f", "f">>, <<"#", "0", "0", "b", "f", "f", "f">>, <<"#", "f", "f", "f", "f", "f", "f">>, <<"#", "c", "0", "c", "0", "c", "0">>>>,
     vintage |-> <<<<"#", "d", "a", "a", "5", "2", "0">>, <<"#", "c", "d", "8", "5", "3", "f">>, <<"#", "f", "5", "d", "e", "b", "3">>, <<"#", "f", "f", "e", "4", "b", "5">>>>]

White == <<"#", "f", "f", "f", "f", "f", "f">>

\* entries 5 to 8 of the dominant colours if there are more than 4, else white
AdaptiveAccents(dominant_colors) ==
    IF Len(dominant_colors) > 4
    THEN SubSeq(dominant_colors, 5, Min(8, Len(dominant_colors)))
    ELSE <<White>>

\* C18 as stated: primary_colors is the first 4 dominant colours, or the
\* theme's fixed fallback triad when there are none; accent_colors is a
\* hardcoded set of the theme for the four named themes, and for adaptive it
\* is entries 5 to 8 of the dominant colours if more than 4 exist and
\* otherwise white, also when there are no dominant colours.
C18_PalettesWhiteWhenEmpty ==
    ThemeScored =>
        LET dominant_colors == DominantColorsOfCall
            theme_name == ret.theme_name
        IN  /\ ret.primary_colors = IF dominant_colors # <<>> THEN FirstN(dominant_colors, 4)
                                    ELSE FallbackPalettes[theme_name][1]
            /\ theme_name \in NamedThemes =>
                  ret.accent_colors \in {AccentSets[theme_name], FallbackPalettes[theme_name][2]}
            /\ theme_name = "adaptive" => ret.accent_colors = AdaptiveAccents(dominant_colors)

\* C18: without dominant colours both palettes are the theme's fixed fallback
\* pair (adaptive shares the one of vintage); with dominant colours
\* primary_colors is the first 4 of them and accent_colors is the theme's
\* hardcoded accent set for the four named themes and, for adaptive, entries
\* 5 to 8 of the dominant colours if more than 4 exist and otherwise white.
C18_PalettesByThemeAndColours ==
    ThemeScored =>
        LET dominant_colors == DominantColorsOfCall
            theme_name == ret.theme_name
        IN  IF dominant_colors = <<>>
            THEN /\ ret.primary_colors = FallbackPalettes[theme_name][1]
                 /\ ret.accent_colors = FallbackPalettes[theme_name][2]
            ELSE /\ ret.primary_colors = FirstN(dominant_colors, 4)
                 /\ theme_name \in NamedThemes => ret.accent_colors = AccentSets[theme_name]
                 /\ theme_name = "adaptive" =>
                       ret.accent_colors = AdaptiveAccents(dominant_colors)

\* an adaptive profile from more than 8 dominant colours: four primary, four accent
C18_Witness ==
    /\ ThemeScored
    /\ ret.theme_name = "adaptive"
    /\ Len(DominantColorsOfCall) > 8
    /\ ret.primary_colors = SubSeq(DominantColorsOfCall, 1, 4)
    /\ ret.accent_colors = SubSeq(DominantColorsOfCall, 5, 8)

-----------------------------------------------------------------------------
(* Properties of the cyberfemme scenario *)

\* the record has dominant_color #ff00ff, a palette whose colours are each
\* within distance 40 of a cyberfemme indicator, saturation 0.85, mood
\* vibrant and energy high
IsMagentaRecord(object) ==
    /\ {"color_analysis", "mood_analysis"} \subseteq DOMAIN object
    /\ object.color_analysis # None
    /\ {"dominant_color", "palette", "saturation"} \subseteq DOMAIN object.color_analysis
    /\ object.color_analysis.dominant_color = <<"#", "f", "f", "0", "0", "f", "f">>
    /\ \A i \in 1..Len(object.color_analysis.palette) :
           _has_cyberfemme_colors(<<object.color_analysis.palette[i]>>)
    /\ object.color_analysis.saturation = 85
    /\ {"primary_mood", "energy_level"} \subseteq DOMAIN object.mood_analysis
    /\ object.mood_analysis.primary_mood = "vibrant"
    /\ object.mood_analysis.energy_level = "high"

\* a non-empty collection of such records
MagentaCollection ==
    /\ ThemeReturned
    /\ call.metadata_directory.exists
    /\ call.metadata_directory.files # <<>>
    /\ \A i \in 1..Len(call.metadata_directory.files) :
           /\ call.metadata_directory.files[i].json = "object"
           /\ IsMagentaRecord(call.metadata_directory.files[i].object)

\* C19: a non-empty collection whose records all have dominant_color
\* #ff00ff, a palette near the cyberfemme indicators, saturation 0.85, mood
\* vibrant and energy high yields theme cyberfemme with confidence 0.95,
\* whatever the records' temperature, brightness and complexity.
C19_MagentaCollectionIsCyberfemme ==
    MagentaCollection => ret.theme_name = "cyberfemme" /\ ret.confidence = Float(95)

\* such a collection of a cool dark record and a warm bright one was analysed
C19_Witness ==
    /\ MagentaCollection
    /\ Len(call.metadata_directory.files) = 2
    /\ call.metadata_directory.files[1].object.color_analysis.temperature = "cool"
    /\ call.metadata_directory.files[2].object.color_analysis.temperature = "warm"
    /\ ret.theme_name = "cyberfemme"
    /\ FloatLess(Float(100), ScoresOfCall.cyberfemme)

-----------------------------------------------------------------------------
(* Properties of the returned layout *)

\* the slot of the called pattern that an assignment key names
SlotOfKey(k) ==
    LET slots == FindPattern(_create_bento_patterns, call.pattern_name).slots
    IN  slots[CHOOSE i \in 1..Len(slots) : SlotKey(slots[i]) = k]

\* the entry records the ratio difference and the crop impact of one of the
\* input records that carry its filename
RecordsItsImage(k) ==
    \E i \in 1..Len(call.image_metadatas) :
        LET image == analyze_image(call.image_metadatas[i])
            slot  == SlotOfKey(k)
            entry == ret.assignments[k]
        IN  /\ entry.filename = image.filename
            /\ entry.aspect_match.num * 100 * image.aspect_den
                 = entry.aspect_match.den
                     * Abs(100 * image.aspect_num - slot.aspect_ratio * image.aspect_den)
            /\ entry.crop_impact = 100 - image.crop_tolerance

\* (max(0, 1 - aspect_match) + max(0, 1 - crop_impact)) / 2 of one entry
StatedSlotScore(entry) ==
    LET am == entry.aspect_match
    IN  Frac(100 * Max(0, am.den - am.num) + Max(0, 100 - entry.crop_impact) * am.den,
             200 * am.den)

RECURSIVE StatedTotal(_, _)
StatedTotal(asg, keys) ==
    IF keys = {} THEN Frac(0, 1)
    ELSE LET k == CHOOSE x \in keys : TRUE
         IN  FracAdd(StatedSlotScore(asg[k]), StatedTotal(asg, keys \ {k}))

LayoutReturned == OptimizeReturned /\ IsLayout(ret)

\* C21: the optimization_score optimize_layout returns is the mean over the
\* filled slots of (max(0, 1 - aspect_match) + max(0, 1 - crop_impact)) / 2,
\* where every filled slot records aspect_match = |image ratio - slot ratio|
\* and crop_impact = 1 - crop_tolerance of its assigned image; the score lies
\* in [0, 1] and is 0 when no slot is filled.
C21_ScoreIsMeanOverFilledSlots ==
    LayoutReturned
      => LET asg    == ret.assignments
             filled == Cardinality(DOMAIN asg)
             score  == ret.optimization_score
             total  == StatedTotal(asg, DOMAIN asg)
         IN  /\ \A k \in DOMAIN asg : RecordsItsImage(k)
             /\ filled > 0 => score.num * total.den * filled = total.num * score.den
             /\ filled = 0 => score.num = 0
             /\ 0 <= score.num /\ score.num <= score.den

\* a layout with two filled slots whose scores differ, one of them with an
\* aspect difference above 1, has been returned
C21_Witness ==
    /\ LayoutReturned
    /\ ret.filled_slots = 2
    /\ \E k1, k2 \in DOMAIN ret.assignments :
          /\ StatedSlotScore(ret.assignments[k1]) # StatedSlotScore(ret.assignments[k2])
          /\ ret.assignments[k1].aspect_match.num > ret.assignments[k1].aspect_match.den
    /\ ret.optimization_score.num > 0

\* the slots of the called pattern, in catalogue order
CatalogueSlots == FindPattern(_create_bento_patterns, call.pattern_name).slots

\* position of a slot in the catalogue order of the called pattern
CatalogueIndex(slot) == CHOOSE i \in 1..Len(CatalogueSlots) : CatalogueSlots[i] = slot

\* slot a is offered images before slot b
Precedes(a, b) ==
    \/ a.importance > b.importance
    \/ a.importance = b.importance /\ CatalogueIndex(a) < CatalogueIndex(b)

\* the loop runs over all slots of the pattern, each once, in the stated order
LoopOrderIsStated ==
    pc = "slots"
      => /\ Len(sorted_slots) = Len(CatalogueSlots)
         /\ Range(sorted_slots) = Range(CatalogueSlots)
         /\ \A i, j \in 1..Len(sorted_slots) :
               i < j => Precedes(sorted_slots[i], sorted_slots[j])
         /\ DOMAIN assignments \subseteq {SlotKey(sorted_slots[i]) : i \in 1..(slot_idx - 1)}

\* a step of the loop takes the next slot of that order, after every slot of
\* strictly higher importance has chosen, and fills it, if at all, with the
\* best of the images no earlier slot was assigned
StepTakesNextSlot ==
    pc = "slots" /\ slot_idx' = slot_idx + 1
      => LET slot == sorted_slots[slot_idx]
             best == _find_best_image_for_slot(slot, analyses, used_images)
         IN  /\ \A i \in 1..Len(sorted_slots) :
                   sorted_slots[i].importance > slot.importance => i < slot_idx
             /\ used_images = {assignments[k].filename : k \in DOMAIN assignments}
             /\ DOMAIN assignments' \ DOMAIN assignments \subseteq {SlotKey(slot)}
             /\ \A k \in DOMAIN assignments : assignments'[k] = assignments[k]
             /\ \A k \in DOMAIN assignments' \ DOMAIN assignments :
                   /\ best # None
                   /\ assignments'[k].filename = best.filename
                   /\ \A k2 \in DOMAIN assignments :
                         assignments[k2].filename # assignments'[k].filename

\* C22: optimize_layout offers images to the slots of the pattern in
\* non-increasing importance order, slots of equal importance in catalogue
\* order; a slot of strictly higher importance chooses before one of lower
\* importance, so the later slot is never assigned the image the earlier one
\* chose as its best among the images unused at its turn.
C22_SlotsChooseByImportance == [](LoopOrderIsStated) /\ [][StepTakesNextSlot]_vars

\* in portrait_showcase the sixth slot of the catalogue (importance 0.9) has
\* chosen second, right after the first (1.0) and before the wide strip (0.8)
\* and the three small squares (0.6), which stay in their catalogue order
C22_Witness ==
    /\ LayoutReturned
    /\ call.pattern_name = "portrait_showcase"
    /\ DOMAIN ret.assignments = {<<0, 0>>, <<1, 3>>}
    /\ ret.assignments[<<0, 0>>].filename # ret.assignments[<<1, 3>>].filename
    /\ SortSlots(CatalogueSlots)[3].importance = 80
    /\ SlotKey(SortSlots(CatalogueSlots)[4]) = <<0, 2>>
    /\ SlotKey(SortSlots(CatalogueSlots)[6]) = <<2, 2>>

\* C27: after any sequence of analyze_image, analyze_collection and
\* optimize_layout calls on one BentoOptimizer its catalogue is unchanged, the
\* same four patterns with the same slots in the same order and the same slot
\* fields; so an optimize_layout call returns what an earlier call with equal
\* arguments returned, whatever calls were made in between.
C27_CatalogueNeverMutated ==
    /\ patterns = _create_bento_patterns
    /\ Len(patterns) = 4
    /\ OptimizeReturned /\ SameArguments(call, earlier) => ret = earlier.ret

\* the second of two calls with equal arguments has returned a layout with two
\* filled slots, after other calls in between
C27_Witness ==
    /\ OptimizeReturned
    /\ SameArguments(call, earlier)
    /\ earlier.between
    /\ IsLayout(ret)
    /\ ret.filled_slots = 2
    /\ ret = earlier.ret

\* the distinct filenames among the records of the call
InputFilenames == {call.image_metadatas[i].filename : i \in 1..Len(call.image_metadatas)}

FilledIsMinimum ==
    LayoutReturned
      => /\ ret.total_slots = Len(CatalogueSlots)
         /\ ret.filled_slots = Min(ret.total_slots, Cardinality(InputFilenames))
         /\ ret.filled_slots = Cardinality(DOMAIN ret.assignments)

\* a step of the slot loop that assigns nothing finds every input filename used
UnfilledOnlyWhenExhausted ==
    pc = "slots" /\ slot_idx' = slot_idx + 1 /\ DOMAIN assignments' = DOMAIN assignments
      => /\ InputFilenames \subseteq used_images
         /\ InputFilenames \subseteq {assignments[k].filename : k \in DOMAIN assignments}

\* C28: for a known pattern, filled_slots is min(total_slots, number of
\* distinct filenames among the input images) and is the number of entries of
\* assignments; a slot stays unfilled only if every input filename is already
\* assigned when the slot is processed.
C28_FilledSlotsIsMinimum == [](FilledIsMinimum) /\ [][UnfilledOnlyWhenExhausted]_vars

\* seven records with seven filenames have filled all six slots of a pattern,
\* one filename staying unassigned
C28_Witness ==
    /\ LayoutReturned
    /\ Cardinality(InputFilenames) = 7
    /\ ret.total_slots = 6
    /\ ret.filled_slots = 6
    /\ Cardinality(InputFilenames
                     \ {ret.assignments[k].filename : k \in DOMAIN ret.assignments}) = 1

-----------------------------------------------------------------------------
(* Properties of the preprocessing step of analyze_colors *)

\* analyze_colors has preprocessed its image and is about to extract colours
Preprocessed == pc = "extract" /\ call.op = "analyze_colors"

LargeFile == call.file.size >= 1024 * 1024

OriginalWidth == call.file.pil.size[1]

OriginalHeight == call.file.pil.size[2]

Oversized == call.file.pil # None /\ (OriginalWidth > 800 \/ OriginalHeight > 600)

\* the image opens, and resize and save raise nothing
Resizable ==
    /\ call.file.pil # None
    /\ call.outcome = "saved"
    /\ \A new_size \in NewSizes(OriginalWidth, OriginalHeight) :
          new_size[1] >= 1 /\ new_size[2] >= 1

\* a resized temporary file, not the original, is handed to the extraction
Downsampled == processed_image_path # call.image_path

\* C23 as stated: an image that opens and can be resized and saved is
\* downsampled before the extraction whenever its file has at least 1 MB or its
\* width exceeds 800 or its height exceeds 600, and the original file is handed
\* to the extraction only when neither holds.
C23_DownsampledWhenLargeFileOrOversized ==
    Preprocessed /\ Resizable => (Downsampled <=> (LargeFile \/ Oversized))

\* C23: the image is downsampled exactly when its file has at least 1 MB and
\* its width exceeds 800 or its height exceeds 600 and resize and save raise
\* nothing; the extraction is handed the resized copy then and the original
\* file in every other case, a smaller file of any dimensions included.
C23_DownsampledWhenLargeFileAndOversized ==
    Preprocessed
      => /\ Downsampled => LargeFile /\ Oversized /\ call.outcome = "saved"
         /\ LargeFile /\ Oversized /\ Resizable => Downsampled
         /\ Downsampled => processed_image_path \in temp_files /\ resized_img # NoSize
         /\ ~Downsampled => resized_img = NoSize

\* a file below 1 MB holding a 4000 x 3000 image is handed to the extraction
\* as it is
C23_Witness ==
    /\ Preprocessed
    /\ ~LargeFile
    /\ call.file.pil # None
    /\ OriginalWidth = 4000 /\ OriginalHeight = 3000
    /\ call.outcome = "saved"
    /\ processed_image_path = call.image_path

\* C24: a resized image is at most 800 wide and at most 600 high, both sides
\* are at least 1, and new_width / new_height is the original width / height
\* up to the truncation of the computed side (here: up to one unit more, the
\* double quotient of a whole ratio may truncate one lower), for every
\* original width and height.
C24_ResizedFitsBox ==
    Preprocessed /\ Downsampled
      => LET new_width  == resized_img[1]
             new_height == resized_img[2]
         IN  /\ new_width <= 800
             /\ new_height <= 600
             /\ new_width >= 1
             /\ new_height >= 1
             /\ \/ /\ new_width = 800
                   /\ 0 <= 800 * OriginalHeight - new_height * OriginalWidth
                   /\ 800 * OriginalHeight - new_height * OriginalWidth <= OriginalWidth
                \/ /\ new_height = 600
                   /\ 0 <= 600 * OriginalWidth - new_width * OriginalHeight
                   /\ 600 * OriginalWidth - new_width * OriginalHeight <= OriginalHeight

\* C29: the temporary resized file handed to the extraction no longer exists
\* when analyze_colors returns, whether it returns the computed profile or,
\* after a failure of the palette extraction, the fallback profile.
C29_TemporaryFileDeleted ==
    [][Preprocessed /\ Downsampled /\ pc' = "idle"
         => processed_image_path \notin temp_files']_vars

-----------------------------------------------------------------------------
(* Properties of classify_image on an image whose analysis partly fails *)

\* classify_image has returned for a file that exists and that PIL opens
OpenedReturned == ClassifyReturned /\ call.file # None /\ call.file.pil # None

ColorsFailed == call.file.colors = None

ComplexityFailed == call.file.cv = None

\* C26: when the colour extraction or the complexity extraction fails for a
\* file that exists and opens (the mood classification raises nothing on the
\* profiles those two return), classify_image raises nothing and returns a
\* complete record: the profile of a failed stage is that stage's fixed
\* fallback profile, basic_info and the profile of a stage that did not fail
\* are the computed ones, and the mood is classified from the two profiles
\* the record holds.
C26_FailedStageFallsBackAlone ==
    OpenedReturned
      => /\ ~Raised(ret)
         /\ DOMAIN ret = Sections
         /\ ret.basic_info.width = call.file.pil.size[1]
         /\ ret.basic_info.height = call.file.pil.size[2]
         /\ ret.basic_info.format = call.file.pil.format
         /\ ret.basic_info.filename = call.image_path
         /\ ret.color_analysis =
              IF ColorsFailed THEN _get_fallback_colors ELSE call.file.colors
         /\ ret.complexity_analysis =
              IF ComplexityFailed THEN _get_fallback_complexity
              ELSE analyze_complexity(call.file.cv)
         /\ ret.mood_analysis = analyze_mood(ret.color_analysis, ret.complexity_analysis)
         /\ ret.classification_metadata.confidence_score = ret.mood_analysis.confidence

\* the colour extraction failed for a 1920 x 1080 JPEG whose complexity was
\* computed: fallback colours next to measured complexity and the mood of both
C26_Witness ==
    /\ OpenedReturned
    /\ ColorsFailed
    /\ ~ComplexityFailed
    /\ ret.basic_info.width = 1920
    /\ ret.color_analysis = _get_fallback_colors
    /\ ret.complexity_analysis # _get_fallback_complexity
    /\ ret.mood_analysis # _get_fallback_mood

-----------------------------------------------------------------------------
(* Properties of _aggregate_complexity_data *)

ComplexityAggregated == call.op = "_aggregate_complexity_data"

\* overall_complexity of the i-th record of the call, 0.5 where it is missing
ComplexityOf(i) ==
    LET metadata == call.metadata_files[i]
    IN  IF "complexity_analysis" \notin DOMAIN metadata THEN 50
        ELSE IF "overall_complexity" \notin DOMAIN metadata["complexity_analysis"] THEN 50
        ELSE metadata["complexity_analysis"]["overall_complexity"]

RECURSIVE ComplexitySum(_)
ComplexitySum(n) == IF n = 0 THEN 0 ELSE ComplexityOf(n) + ComplexitySum(n - 1)

\* n * n times the sum of the squared deviations of the first k values from
\* the mean of all n: the sum of (n * x - sum)^2
RECURSIVE ScaledSquaredDeviations(_, _)
ScaledSquaredDeviations(k, n) ==
    IF k = 0 THEN 0
    ELSE (n * ComplexityOf(k) - ComplexitySum(n)) * (n * ComplexityOf(k) - ComplexitySum(n))
         + ScaledSquaredDeviations(k - 1, n)

\* avg_complexity is the mean, and complexity_variance is the sum of squared
\* deviations divided by n - less, or 0 for fewer than 2 records; an empty list
\* gives 0.5 and 0
MeanAndVariance(less) ==
    ComplexityAggregated
      => LET n == Len(call.metadata_files)
             avg == ret.avg_complexity
             var == ret.complexity_variance
         IN  /\ DOMAIN ret = {"avg_complexity", "complexity_variance"}
             /\ n = 0 => avg = Frac(50, 1) /\ var.num = 0
             /\ n > 0 => avg.num * n = ComplexitySum(n) * avg.den
             /\ n = 1 => var.num = 0
             /\ n > 1 => var.num * n * n * (n - less) = ScaledSquaredDeviations(n, n) * var.den

\* C25 as stated: avg_complexity is the arithmetic mean of the records'
\* overall_complexity, 0.5 for a missing value, and complexity_variance is the
\* population variance, the sum of squared deviations divided by the number
\* of records, and 0 for fewer than 2 records.
C25_MeanAndPopulationVariance == MeanAndVariance(0)

\* C25: avg_complexity is the arithmetic mean of the records'
\* overall_complexity, 0.5 for a missing value, and complexity_variance is the
\* sample variance, the sum of squared deviations divided by the number of
\* records less one, and 0 for fewer than 2 records.
C25_MeanAndSampleVariance == MeanAndVariance(1)

\* the values 0.3 and 0.7 have been aggregated to mean 0.5 and variance 0.08
C25_Witness ==
    /\ ComplexityAggregated
    /\ Len(call.metadata_files) = 2
    /\ ComplexityOf(1) = 30
    /\ ComplexityOf(2) = 70
    /\ ret.avg_complexity = Frac(50, 1)
    /\ ret.complexity_variance = Frac(800, 1)

-----------------------------------------------------------------------------
(* Properties of two caches on one file *)

\* C30: with two instances open on one cache file, in any interleaving of
\* their constructions and set_theme calls, a cache constructed after the
\* calls have returned returns a profile for every key an instance has set:
\* no entry written by one instance is lost through the other instance's save.
C30_NoEntryLost ==
    pc = "idle"
      => \A instance \in Instances :
            \A collection_hash \in DOMAIN latest[instance] :
                FoundByNewInstance(collection_hash) # None

=============================================================================
